---- MODULE Spec2Model ----
(***************************************************************************)
(* A model of the username membership cache of tasksine-backend:           *)
(*   BloomFilterService (src/src/common/bloom-filter/bloom-filter.service) *)
(*   UserService        (src/src/user/user.service.ts)                     *)
(* Strings are sequences of one-character strings.  Every `await` of the   *)
(* source is a step boundary of the model: the code between two awaits is  *)
(* one atomic action (JavaScript runs it to completion).                   *)
(***************************************************************************)
EXTENDS Integers, Sequences, FiniteSets, TLC

(***************************************************************************)
(* Bounds of the model.                                                    *)
(***************************************************************************)
NumProcs == 2      \* concurrent callers of the services
MaxRuns  == 2      \* doInitialize sequences started in one behaviour
MaxCalls == 3      \* service calls made in one behaviour
NumBits  == 4      \* bit positions of the filter's bit vector

Procs  == 1..NumProcs
RunIds == 1..MaxRuns

(***************************************************************************)
(* Strings.                                                                *)
(***************************************************************************)
Lower(c) ==
  CASE c = "A" -> "a"
    [] c = "B" -> "b"
    [] OTHER -> c

ToLowerCase(s) == [i \in 1..Len(s) |-> Lower(s[i])]

IsSpace(c) == c = " "

RECURSIVE TrimStart(_)
TrimStart(s) ==
  IF s # <<>> /\ IsSpace(Head(s)) THEN TrimStart(Tail(s)) ELSE s

RECURSIVE TrimEnd(_)
TrimEnd(s) ==
  IF s # <<>> /\ IsSpace(s[Len(s)]) THEN TrimEnd(SubSeq(s, 1, Len(s) - 1)) ELSE s

Trim(s) == TrimEnd(TrimStart(s))

\* BloomFilterService.normalizeUsername: username.toLowerCase().trim()
normalizeUsername(username) == Trim(ToLowerCase(username))

(***************************************************************************)
(* The bit structure of the bloom-filters library, as the service uses it. *)
(***************************************************************************)
CharCode(c) ==
  CASE c = "a" -> 1
    [] c = "b" -> 2
    [] c = "c" -> 3
    [] c = "_" -> 4
    [] c = "1" -> 5
    [] c = "x" -> 6
    [] c = "A" -> 7
    [] c = "B" -> 8
    [] c = " " -> 9
    [] OTHER -> 10

RECURSIVE SumCodes(_)
SumCodes(s) == IF s = <<>> THEN 0 ELSE CharCode(Head(s)) + SumCodes(Tail(s))

\* the bit positions an element sets and tests (two hash functions)
Indexes(s) == { SumCodes(s) % NumBits, (SumCodes(s) + Len(s)) % NumBits }

NoFilter == [some |-> FALSE, bits |-> {}, cap |-> 0, rate |-> 0]

\* BloomFilter.create(capacity, errorRate)
BloomCreate(capacity, errorRate) ==
  [some |-> TRUE, bits |-> {}, cap |-> capacity, rate |-> errorRate]

\* BloomFilter.has(element)
BloomHas(f, s) == Indexes(s) \subseteq f.bits

\* BloomFilter.add(element)
BloomAdd(f, s) == [f EXCEPT !.bits = @ \cup Indexes(s)]

RECURSIVE BloomAddAll(_, _)
BloomAddAll(f, ss) ==
  IF ss = <<>> THEN f ELSE BloomAddAll(BloomAdd(f, Head(ss)), Tail(ss))

(***************************************************************************)
(* The snapshot: JSON.stringify(filter.saveAsJSON()) and its inverse       *)
(* BloomFilter.fromJSON(JSON.parse(serialized)).  The bit vector is        *)
(* written as an array of 0/1 of the filter's size.                        *)
(***************************************************************************)
BlobKinds == {"absent", "notjson", "notobject", "undecodable", "snapshot"}

PlainBlob(kind) ==
  [kind |-> kind, content |-> <<>>, cap |-> 0, rate |-> 0]

Serialize(f) ==
  [kind |-> "snapshot",
   content |-> [i \in 1..NumBits |-> IF (i - 1) \in f.bits THEN 1 ELSE 0],
   cap |-> f.cap, rate |-> f.rate]

Deserialize_NoBits(blob) ==
  [some |-> TRUE, bits |-> {}, cap |-> blob.cap, rate |-> blob.rate]
Deserialize(blob) ==
  [some |-> TRUE,
   bits |-> {i - 1 : i \in {j \in 1..Len(blob.content) : blob.content[j] = 1}},
   cap |-> blob.cap, rate |-> blob.rate]

(***************************************************************************)
(* State.                                                                  *)
(***************************************************************************)
VARIABLES
  config,                 \* ConfigService: BLOOM_FILTER_CAPACITY / _ERROR_RATE (0: unset)
  dbMode,                 \* the store: "up", "down" (every call throws), "flaky"
  dbRows,                 \* users table: the usernames, in table order
  redisMode,              \* the adapter: "up", "down" (not connected), "flaky"
  redisBlob,              \* the value under REDIS_KEY
  bloomFilter,            \* BloomFilterService.bloomFilter
  isInitialized,          \* BloomFilterService.isInitialized
  initializationPromise,  \* BloomFilterService.initializationPromise (0: null, else a run)
  run,                    \* the doInitialize sequences, by run id
  runsStarted,            \* number of doInitialize sequences started
  call,                   \* each caller's operation in progress
  callsMade,              \* number of calls made by the callers
  addedLive,              \* history: normalized names added to the live filter instance
  ucall,                  \* each caller's UserService operation in progress
  validatesMade,          \* number of validateUsername calls made
  restarts,               \* number of process restarts
  carried,                \* history: the names the instance before the restart had added
  dbEmails                \* users table: the email of each row, in table order

vars == <<config, dbMode, dbRows, redisMode, redisBlob, bloomFilter, isInitialized,
          initializationPromise, run, runsStarted, call, callsMade, addedLive,
          ucall, validatesMade, restarts, carried, dbEmails>>

\* the variables of the UserService callers
uvars == <<ucall, validatesMade>>

\* the variables of the process restarts, and the email column, which only the
\* inserts of UserService change
rvars == <<restarts, carried, dbEmails>>

\* the variables of the doInitialize sequences and of the cache's direct callers
cvars == <<initializationPromise, run, runsStarted, call>>

(***************************************************************************)
(* Configuration (bloom-filter.service.ts:35-36, 361-376).                 *)
(***************************************************************************)
DEFAULT_CAPACITY == 1000000
\* DEFAULT_ERROR_RATE = 0.01, in units of 1/10000
DEFAULT_ERROR_RATE == 100

Configs == { [capacity |-> 0, errorRate |-> 0], [capacity |-> 2, errorRate |-> 500] }

getCapacity == IF config.capacity # 0 THEN config.capacity ELSE DEFAULT_CAPACITY

getErrorRate == IF config.errorRate # 0 THEN config.errorRate ELSE DEFAULT_ERROR_RATE

\* getStats(), lines 381-395; length is the number of bits set in the filter
\* (falsePositiveRate, a real number computed by the filter, is left out)
getStats ==
  [initialized |-> isInitialized,
   itemCount   |-> IF bloomFilter.some THEN Cardinality(bloomFilter.bits) ELSE 0,
   capacity    |-> getCapacity,
   errorRate   |-> getErrorRate]

(***************************************************************************)
(* The collaborators: what a call can answer in the current mode.          *)
(***************************************************************************)
\* prisma calls: "ok" or "throw"
DbOutcomes ==
  CASE dbMode = "up" -> {"ok"}
    [] dbMode = "down" -> {"throw"}
    [] OTHER -> {"ok", "throw"}

\* RedisService.isConnected(): this.client?.isReady === true
RedisConnected_Always == {TRUE}
RedisConnected ==
  CASE redisMode = "up" -> {TRUE}
    [] redisMode = "down" -> {FALSE}
    [] OTHER -> BOOLEAN

\* what the redis client does with a command: it succeeds ("ok"), the service
\* finds the client not ready any more ("false"), or the client throws
RedisSetOutcomes == IF redisMode = "up" THEN {"ok"} ELSE {"ok", "false", "throw"}

RedisGetOutcomes == IF redisMode = "up" THEN {"ok"} ELSE {"ok", "false", "throw"}

\* RedisService.get(key): the stored value; null when not connected or on error
RedisGet(outcome) ==
  IF outcome = "ok" THEN redisBlob ELSE PlainBlob("absent")

\* RedisService.set(key, value): the value under the key afterwards (the call
\* returns false, and stores nothing, when not connected or on error)
RedisSet(blob, outcome) ==
  IF outcome = "ok" THEN blob ELSE redisBlob

(***************************************************************************)
(* BloomFilterService: the synchronous pieces.                             *)
(***************************************************************************)
\* isAvailable(username), lines 112-138
isAvailable_NotReadyTaken(username) ==
  IF ~isInitialized \/ ~bloomFilter.some
    THEN FALSE
    ELSE ~BloomHas(bloomFilter, normalizeUsername(username))
isAvailable(username) ==
  IF ~isInitialized \/ ~bloomFilter.some
    THEN TRUE
    ELSE ~BloomHas(bloomFilter, normalizeUsername(username))

\* saveToRedis, lines 322-339: whether the call reaches redisService.set
SaveReachesSet(f, connected) == f.some /\ connected

\* saveToRedis: the value under REDIS_KEY once the call has been issued
saveToRedis(f, connected, outcome) ==
  IF SaveReachesSet(f, connected) THEN RedisSet(Serialize(f), outcome) ELSE redisBlob

\* saveToRedis: whether the call rejects: RedisService.set catches the client's
\* failure and the try/catch of lines 327-338 catches whatever is left
saveToRedisThrows_NoCatch(f, connected, outcome) ==
  SaveReachesSet(f, connected) /\ outcome = "throw"
saveToRedisThrows(f, connected, outcome) == FALSE

\* the guard of add and addBulk, lines 147 and 176
AddGuard == isInitialized /\ bloomFilter.some

\* add(username), lines 146-167: the filter after the call
add_NoNormalize(username) ==
  IF AddGuard THEN BloomAdd(bloomFilter, username) ELSE bloomFilter
add(username) ==
  IF AddGuard THEN BloomAdd(bloomFilter, normalizeUsername(username)) ELSE bloomFilter

\* addBulk(usernames), lines 175-200: the filter after the call
addBulk(usernames) ==
  IF AddGuard
    THEN BloomAddAll(bloomFilter, [i \in 1..Len(usernames) |-> normalizeUsername(usernames[i])])
    ELSE bloomFilter

\* createEmptyFilter, lines 344-349
createEmptyFilter_KeepLive ==
  IF bloomFilter.some THEN bloomFilter ELSE BloomCreate(getCapacity, getErrorRate)
createEmptyFilter == BloomCreate(getCapacity, getErrorRate)

(***************************************************************************)
(* initializeFromDatabase: sizing and paging (lines 205-252).              *)
(***************************************************************************)
BatchSize == 1000

Max(a, b) == IF a >= b THEN a ELSE b
Min(a, b) == IF a <= b THEN a ELSE b

\* Math.ceil(userCount * 2.5)
CeilGrowth_Floor(userCount) == (userCount * 5) \div 2
CeilGrowth(userCount) == (userCount * 5 + 1) \div 2

\* Math.max(this.getCapacity(), Math.ceil(userCount * 2.5))
WarmCapacity(userCount) == Max(getCapacity, CeilGrowth(userCount))

\* prisma.user.findMany({ skip, take }): the usernames of one page
findMany(skip, take) == SubSeq(dbRows, skip + 1, Min(skip + take, Len(dbRows)))

SeqToSet(ss) == { ss[i] : i \in 1..Len(ss) }

(***************************************************************************)
(* Callers and doInitialize sequences.                                     *)
(***************************************************************************)
Idle ==
  [op |-> "none", pc |-> "idle", run |-> 0, ready |-> FALSE, arg |-> <<>>,
   persist |-> "none", threw |-> FALSE]

\* a caller of UserService; ret, path, existed, absent, errored, skipped, avail,
\* listed and result are history of the operation
UIdle ==
  [op |-> "none", pc |-> "idle", username |-> <<>>, i |-> 0, cand |-> <<>>,
   fails |-> 0, checks |-> 0, threw |-> FALSE, maxRetries |-> 10,
   ret |-> <<>>, path |-> "", existed |-> FALSE, reported |-> FALSE,
   absent |-> {}, errored |-> {}, skipped |-> FALSE,
   avail |-> "none", listed |-> FALSE, result |-> <<>>,
   clean |-> <<>>, suggestions |-> <<>>, attemptedUsernames |-> {},
   k |-> 0, attempts |-> 0, sub |-> 0, rnd |-> [a |-> <<>>, b |-> <<>>, n |-> 0],
   email |-> 0, account |-> 0]

\* path is history: how a finished sequence reached Ready ("redis", "db", "fallback");
\* persist is history: what the saveToRedis call the sequence waits on did
NoRun ==
  [pc |-> "none", loaded |-> FALSE, got |-> PlainBlob("absent"), skip |-> 0, path |-> "",
   persist |-> "none"]

InFlight == { r \in RunIds : run[r].pc \notin {"none", "done"} }

\* history: the callers waiting on an initialization see the state become Ready
MarkReady(c) ==
  [p \in Procs |-> IF c[p].pc = "await_init" THEN [c[p] EXCEPT !.ready = TRUE] ELSE c[p]]

\* history: the persist attempt of one saveToRedis call
Persisted(f, connected, outcome) ==
  IF ~SaveReachesSet(f, connected) THEN "skipped"
  ELSE IF outcome = "ok" THEN "ok" ELSE "failed"

\* doInitialize up to its first await (lines 72-76) with loadFromRedis up to its
\* first await (lines 274-280)
doInitializeStart(connected, outcome) ==
  IF connected
    THEN [NoRun EXCEPT !.pc = "redis_get", !.got = RedisGet(outcome)]
    ELSE [NoRun EXCEPT !.pc = "load_ret"]

\* initialize, lines 61-69: whether the call joins the sequence in flight
JoinsInFlight_Never == FALSE
JoinsInFlight == initializationPromise # 0

\* initialize, lines 63-68: the caller resumes when the awaited promise settles
InitializeSettled(p) == run[call[p].run].pc = "done"

\* the body of initialize for caller p, shared by initialize and reinitialize
InitializeBody(p, op) ==
  IF JoinsInFlight
    THEN /\ call' = [call EXCEPT ![p] =
                       [Idle EXCEPT !.op = op, !.pc = "await_init",
                                    !.run = initializationPromise]]
         /\ UNCHANGED <<initializationPromise, run, runsStarted>>
    ELSE /\ runsStarted < MaxRuns
         /\ \E connected \in RedisConnected, outcome \in RedisGetOutcomes :
              run' = [run EXCEPT ![runsStarted + 1] = doInitializeStart(connected, outcome)]
         /\ initializationPromise' = runsStarted + 1
         /\ runsStarted' = runsStarted + 1
         /\ call' = [call EXCEPT ![p] =
                       [Idle EXCEPT !.op = op, !.pc = "await_init",
                                    !.run = runsStarted + 1]]

\* initialize(), lines 61-69
initialize(p) ==
  /\ call[p].pc = "idle"
  /\ callsMade < MaxCalls
  /\ callsMade' = callsMade + 1
  /\ InitializeBody(p, "initialize")
  /\ UNCHANGED <<config, dbMode, dbRows, redisMode, redisBlob, bloomFilter,
                 isInitialized, addedLive>>
  /\ UNCHANGED <<uvars, rvars>>

\* reinitialize(), lines 401-406
reinitialize(p) ==
  /\ call[p].pc = "idle"
  /\ callsMade < MaxCalls
  /\ callsMade' = callsMade + 1
  /\ isInitialized' = FALSE
  /\ bloomFilter' = NoFilter
  /\ addedLive' = {}
  /\ InitializeBody(p, "reinitialize")
  /\ UNCHANGED <<config, dbMode, dbRows, redisMode, redisBlob>>
  /\ UNCHANGED <<uvars, rvars>>

\* the await of line 68 (or the returned promise of line 64) settles
InitializeReturns(p) ==
  /\ call[p].pc = "await_init"
  /\ InitializeSettled(p)
  /\ call' = [call EXCEPT ![p] = [@ EXCEPT !.pc = "idle", !.run = 0]]
  /\ UNCHANGED callsMade
  /\ UNCHANGED <<config, dbMode, dbRows, redisMode, redisBlob, bloomFilter,
                 isInitialized, initializationPromise, run, runsStarted, addedLive>>
  /\ UNCHANGED <<uvars, rvars>>

\* loadFromRedis resumes after redisService.get, lines 280-316
RedisGetReturns_MissRejects(r) ==
  /\ run[r].pc = "redis_get"
  /\ LET loaded == run[r].got.kind = "snapshot" IN
       /\ bloomFilter' = IF loaded THEN Deserialize(run[r].got) ELSE bloomFilter
       /\ addedLive' = IF loaded THEN {} ELSE addedLive
       /\ run' = [run EXCEPT ![r] = [NoRun EXCEPT !.pc = IF loaded THEN "load_ret" ELSE "rejected",
                                              !.loaded = loaded]]
  /\ UNCHANGED callsMade
  /\ UNCHANGED <<config, dbMode, dbRows, redisMode, redisBlob, isInitialized,
                 initializationPromise, runsStarted, call>>
  /\ UNCHANGED <<uvars, rvars>>
RedisGetReturns(r) ==
  /\ run[r].pc = "redis_get"
  /\ LET loaded == run[r].got.kind = "snapshot" IN
       /\ bloomFilter' = IF loaded THEN Deserialize(run[r].got) ELSE bloomFilter
       /\ addedLive' = IF loaded THEN {} ELSE addedLive
       /\ run' = [run EXCEPT ![r] = [NoRun EXCEPT !.pc = "load_ret", !.loaded = loaded]]
  /\ UNCHANGED callsMade
  /\ UNCHANGED <<config, dbMode, dbRows, redisMode, redisBlob, isInitialized,
                 initializationPromise, runsStarted, call>>
  /\ UNCHANGED <<uvars, rvars>>

\* doInitialize resumes after loadFromRedis, lines 76-85 and 100-102; on a miss
\* initializeFromDatabase runs up to prisma.user.count(), line 208
LoadFromRedisReturns_AlwaysScan(r) ==
  /\ run[r].pc = "load_ret"
  /\ IF FALSE
       THEN /\ isInitialized' = TRUE
            /\ initializationPromise' = 0
            /\ run' = [run EXCEPT ![r] = [NoRun EXCEPT !.pc = "done", !.path = "redis"]]
            /\ call' = MarkReady(call)
       ELSE /\ run' = [run EXCEPT ![r] = [NoRun EXCEPT !.pc = "count"]]
            /\ UNCHANGED <<isInitialized, initializationPromise, call>>
  /\ UNCHANGED callsMade
  /\ UNCHANGED <<config, dbMode, dbRows, redisMode, redisBlob, bloomFilter,
                 runsStarted, addedLive>>
  /\ UNCHANGED <<uvars, rvars>>
LoadFromRedisReturns(r) ==
  /\ run[r].pc = "load_ret"
  /\ IF run[r].loaded
       THEN /\ isInitialized' = TRUE
            /\ initializationPromise' = 0
            /\ run' = [run EXCEPT ![r] = [NoRun EXCEPT !.pc = "done", !.path = "redis"]]
            /\ call' = MarkReady(call)
       ELSE /\ run' = [run EXCEPT ![r] = [NoRun EXCEPT !.pc = "count"]]
            /\ UNCHANGED <<isInitialized, initializationPromise, call>>
  /\ UNCHANGED callsMade
  /\ UNCHANGED <<config, dbMode, dbRows, redisMode, redisBlob, bloomFilter,
                 runsStarted, addedLive>>
  /\ UNCHANGED <<uvars, rvars>>

\* initializeFromDatabase resumes after count(), lines 208-236
CountReturns(r) ==
  /\ run[r].pc = "count"
  /\ \E outcome \in DbOutcomes :
       IF outcome = "throw"
         THEN /\ run' = [run EXCEPT ![r] = [NoRun EXCEPT !.pc = "rejected"]]
              /\ UNCHANGED <<bloomFilter, addedLive>>
         ELSE /\ bloomFilter' = BloomCreate(WarmCapacity(Len(dbRows)), getErrorRate)
              /\ addedLive' = {}
              /\ run' = [run EXCEPT ![r] = [NoRun EXCEPT !.pc = "findMany"]]
  /\ UNCHANGED callsMade
  /\ UNCHANGED <<config, dbMode, dbRows, redisMode, redisBlob, isInitialized,
                 initializationPromise, runsStarted, call>>
  /\ UNCHANGED <<uvars, rvars>>

\* initializeFromDatabase resumes after findMany, lines 230-255: an empty page
\* ends the loop and the final saveToRedis is issued; otherwise addBulk runs up
\* to its saveToRedis
FindManyReturns(r) ==
  /\ run[r].pc = "findMany"
  /\ \E outcome \in DbOutcomes, connected \in RedisConnected, set \in RedisSetOutcomes :
       LET users == findMany(run[r].skip, BatchSize) IN
       IF outcome = "throw"
         THEN /\ run' = [run EXCEPT ![r] = [NoRun EXCEPT !.pc = "rejected"]]
              /\ UNCHANGED <<bloomFilter, redisBlob, addedLive>>
         ELSE IF users = <<>>
           THEN /\ redisBlob' = saveToRedis(bloomFilter, connected, set)
                /\ run' = [run EXCEPT ![r] =
                     [NoRun EXCEPT !.pc =
                        IF saveToRedisThrows(bloomFilter, connected, set)
                          THEN "rejected" ELSE "save",
                                   !.persist = Persisted(bloomFilter, connected, set)]]
                /\ UNCHANGED <<bloomFilter, addedLive>>
           ELSE /\ bloomFilter' = addBulk(users)
                /\ addedLive' =
                     IF AddGuard
                       THEN addedLive \cup { normalizeUsername(u) : u \in SeqToSet(users) }
                       ELSE addedLive
                /\ redisBlob' =
                     IF AddGuard THEN saveToRedis(addBulk(users), connected, set)
                                 ELSE redisBlob
                /\ run' = [run EXCEPT ![r] =
                     [@ EXCEPT !.pc = "addBulk",
                               !.persist = IF AddGuard
                                             THEN Persisted(addBulk(users), connected, set)
                                             ELSE "none"]]
  /\ UNCHANGED callsMade
  /\ UNCHANGED <<config, dbMode, dbRows, redisMode, isInitialized,
                 initializationPromise, runsStarted, call>>
  /\ UNCHANGED <<uvars, rvars>>

\* initializeFromDatabase resumes after addBulk, lines 245-247 and 230
AddBulkReturns(r) ==
  /\ run[r].pc = "addBulk"
  /\ run' = [run EXCEPT ![r] = [@ EXCEPT !.pc = "findMany", !.skip = @ + BatchSize,
                                          !.persist = "none"]]
  /\ UNCHANGED callsMade
  /\ UNCHANGED <<config, dbMode, dbRows, redisMode, redisBlob, bloomFilter,
                 isInitialized, initializationPromise, runsStarted, call, addedLive>>
  /\ UNCHANGED <<uvars, rvars>>

\* the final saveToRedis settles and initializeFromDatabase returns, lines
\* 255-259, then doInitialize lines 86-87 and 100-102
SaveReturns(r) ==
  /\ run[r].pc = "save"
  /\ isInitialized' = TRUE
  /\ initializationPromise' = 0
  /\ run' = [run EXCEPT ![r] = [NoRun EXCEPT !.pc = "done", !.path = "db"]]
  /\ call' = MarkReady(call)
  /\ UNCHANGED callsMade
  /\ UNCHANGED <<config, dbMode, dbRows, redisMode, redisBlob, bloomFilter,
                 runsStarted, addedLive>>
  /\ UNCHANGED <<uvars, rvars>>

\* initializeFromDatabase rejected: the catch of doInitialize, lines 88-102
InitializeRejected_Uninitialized(r) ==
  /\ run[r].pc = "rejected"
  /\ bloomFilter' = createEmptyFilter
  /\ addedLive' = {}
  /\ isInitialized' = FALSE
  /\ initializationPromise' = 0
  /\ run' = [run EXCEPT ![r] = [NoRun EXCEPT !.pc = "done", !.path = "fallback"]]
  /\ call' = MarkReady(call)
  /\ UNCHANGED callsMade
  /\ UNCHANGED <<config, dbMode, dbRows, redisMode, redisBlob, runsStarted>>
  /\ UNCHANGED <<uvars, rvars>>
InitializeRejected(r) ==
  /\ run[r].pc = "rejected"
  /\ bloomFilter' = createEmptyFilter
  /\ addedLive' = {}
  /\ isInitialized' = TRUE
  /\ initializationPromise' = 0
  /\ run' = [run EXCEPT ![r] = [NoRun EXCEPT !.pc = "done", !.path = "fallback"]]
  /\ call' = MarkReady(call)
  /\ UNCHANGED callsMade
  /\ UNCHANGED <<config, dbMode, dbRows, redisMode, redisBlob, runsStarted>>
  /\ UNCHANGED <<uvars, rvars>>

(***************************************************************************)
(* The inputs of the cache's callers.                                      *)
(***************************************************************************)
RawNames == { <<"A">>, <<"a">>, <<" ", "b">> }

\* the names the cache is asked about
QueryNames == { <<"a">>, <<"A">>, <<"a", " ">>, <<"b">>, <<" ", "b">>, <<"B">>, <<"a", "b">> }

BulkLists == { << <<"A">>, <<"b">> >> }

\* add(username), lines 146-167, up to the await of saveToRedis; run is
\* history: the doInitialize sequence in flight when add was called (0: none)
CallAdd(p, username) ==
  /\ call[p].pc = "idle"
  /\ callsMade < MaxCalls
  /\ callsMade' = callsMade + 1
  /\ \E connected \in RedisConnected, set \in RedisSetOutcomes :
       /\ bloomFilter' = add(username)
       /\ addedLive' = IF AddGuard THEN addedLive \cup {normalizeUsername(username)}
                                   ELSE addedLive
       /\ redisBlob' = IF AddGuard THEN saveToRedis(add(username), connected, set)
                                   ELSE redisBlob
       /\ call' = [call EXCEPT ![p] =
            [Idle EXCEPT !.op = "add", !.pc = "await_save", !.arg = username,
                         !.run = initializationPromise,
                         !.persist = IF AddGuard
                                       THEN Persisted(add(username), connected, set)
                                       ELSE "none"]]
  /\ UNCHANGED <<config, dbMode, dbRows, redisMode, isInitialized,
                 initializationPromise, run, runsStarted>>
  /\ UNCHANGED <<uvars, rvars>>

\* addBulk(usernames), lines 175-200, called from outside the service
CallAddBulk(p, usernames) ==
  /\ call[p].pc = "idle"
  /\ callsMade < MaxCalls
  /\ callsMade' = callsMade + 1
  /\ \E connected \in RedisConnected, set \in RedisSetOutcomes :
       /\ bloomFilter' = addBulk(usernames)
       /\ addedLive' =
            IF AddGuard
              THEN addedLive \cup { normalizeUsername(u) : u \in SeqToSet(usernames) }
              ELSE addedLive
       /\ redisBlob' = IF AddGuard THEN saveToRedis(addBulk(usernames), connected, set)
                                   ELSE redisBlob
       /\ call' = [call EXCEPT ![p] =
            [Idle EXCEPT !.op = "addBulk", !.pc = "await_save",
                         !.persist = IF AddGuard
                                       THEN Persisted(addBulk(usernames), connected, set)
                                       ELSE "none"]]
  /\ UNCHANGED <<config, dbMode, dbRows, redisMode, isInitialized,
                 initializationPromise, run, runsStarted>>
  /\ UNCHANGED <<uvars, rvars>>

\* onApplicationShutdown(), lines 54-56
onApplicationShutdown(p) ==
  /\ call[p].pc = "idle"
  /\ callsMade < MaxCalls
  /\ callsMade' = callsMade + 1
  /\ \E connected \in RedisConnected, set \in RedisSetOutcomes :
       /\ redisBlob' = saveToRedis(bloomFilter, connected, set)
       /\ call' = [call EXCEPT ![p] =
            [Idle EXCEPT !.op = "shutdown", !.pc = "await_save",
                         !.persist = Persisted(bloomFilter, connected, set),
                         !.threw = saveToRedisThrows(bloomFilter, connected, set)]]
  /\ UNCHANGED <<config, dbMode, dbRows, redisMode, bloomFilter, isInitialized,
                 initializationPromise, run, runsStarted, addedLive>>
  /\ UNCHANGED <<uvars, rvars>>

\* the await of saveToRedis settles: add line 158, addBulk line 191, shutdown line 55
SaveSettles(p) ==
  /\ call[p].pc = "await_save"
  /\ call' = [call EXCEPT ![p] = [@ EXCEPT !.pc = "idle"]]
  /\ UNCHANGED callsMade
  /\ UNCHANGED <<config, dbMode, dbRows, redisMode, redisBlob, bloomFilter,
                 isInitialized, initializationPromise, run, runsStarted, addedLive>>
  /\ UNCHANGED <<uvars, rvars>>

(***************************************************************************)
(* The cache's life cycle under concurrent callers.                        *)
(***************************************************************************)
Modes == {"up", "down", "flaky"}

InitialStores == { <<>>, << <<"a">>, <<"b">> >> }

\* what REDIS_KEY may hold when the process starts
InitialBlobs ==
  { PlainBlob("absent"), PlainBlob("notjson"), PlainBlob("undecodable"),
    Serialize(BloomAdd(BloomCreate(DEFAULT_CAPACITY, DEFAULT_ERROR_RATE), <<"a">>)) }

\* the service as constructed, lines 28-30
ServiceInit ==
  /\ bloomFilter = NoFilter
  /\ isInitialized = FALSE
  /\ initializationPromise = 0
  /\ run = [r \in RunIds |-> NoRun]
  /\ runsStarted = 0
  /\ addedLive = {}

Init ==
  /\ config \in Configs
  /\ dbMode \in {"up", "flaky"}
  /\ dbRows \in InitialStores
  /\ redisMode \in Modes
  /\ redisBlob \in InitialBlobs
  /\ ServiceInit
  /\ call = [p \in Procs |-> Idle]
  /\ callsMade = 0
  /\ ucall = [p \in Procs |-> UIdle]
  /\ validatesMade = 0
  /\ restarts = 0
  /\ carried = {}
  /\ dbEmails = [i \in 1..Len(dbRows) |-> i]

Next ==
  \/ \E p \in Procs : initialize(p)
  \/ \E p \in Procs : reinitialize(p)
  \/ \E p \in Procs : InitializeReturns(p)
  \/ \E r \in RunIds : RedisGetReturns(r)
  \/ \E r \in RunIds : LoadFromRedisReturns(r)
  \/ \E r \in RunIds : CountReturns(r)
  \/ \E r \in RunIds : FindManyReturns(r)
  \/ \E r \in RunIds : AddBulkReturns(r)
  \/ \E r \in RunIds : SaveReturns(r)
  \/ \E r \in RunIds : InitializeRejected(r)
  \/ \E p \in Procs, u \in RawNames : CallAdd(p, u)
  \/ \E p \in Procs, us \in BulkLists : CallAddBulk(p, us)
  \/ \E p \in Procs : onApplicationShutdown(p)
  \/ \E p \in Procs : SaveSettles(p)

Spec == Init /\ [][Next]_vars

(***************************************************************************)
(* The process restarts: a fresh BloomFilterService over the same store    *)
(* and the same REDIS_KEY.                                                 *)
(***************************************************************************)
MaxRestarts == 1   \* process restarts in one behaviour

\* no call and no doInitialize sequence is in progress
Quiescent == InFlight = {} /\ \A p \in Procs : call[p].pc = "idle"

\* the process ends once its calls have completed and a new one starts: the
\* fields are those of the constructor (lines 28-30) and onModuleInit calls
\* initialize() (lines 47-49), which runs to its first await; carried is history
Restart ==
  /\ restarts < MaxRestarts
  /\ Quiescent
  /\ restarts' = restarts + 1
  /\ carried' = IF AddGuard THEN addedLive ELSE {}
  /\ bloomFilter' = NoFilter
  /\ isInitialized' = FALSE
  /\ addedLive' = {}
  /\ \E connected \in RedisConnected, outcome \in RedisGetOutcomes :
       run' = [r \in RunIds |->
                 IF r = 1 THEN doInitializeStart(connected, outcome) ELSE NoRun]
  /\ initializationPromise' = 1
  /\ runsStarted' = 1
  /\ call' = [p \in Procs |->
                IF p = 1 THEN [Idle EXCEPT !.op = "initialize", !.pc = "await_init",
                                           !.run = 1]
                         ELSE Idle]
  /\ UNCHANGED <<config, dbMode, dbRows, dbEmails, redisMode, redisBlob, callsMade>>
  /\ UNCHANGED uvars

InitRestart ==
  /\ config = [capacity |-> 0, errorRate |-> 0]
  /\ dbMode \in {"up", "flaky"}
  /\ dbRows \in InitialStores
  /\ redisMode \in {"up", "down"}
  /\ redisBlob \in InitialBlobs
  /\ ServiceInit
  /\ call = [p \in Procs |-> Idle]
  /\ callsMade = 0
  /\ ucall = [p \in Procs |-> UIdle]
  /\ validatesMade = 0
  /\ restarts = 0
  /\ carried = {}
  /\ dbEmails = [i \in 1..Len(dbRows) |-> i]

NextRestart ==
  \/ \E p \in Procs : initialize(p)
  \/ \E p \in Procs : reinitialize(p)
  \/ \E p \in Procs : InitializeReturns(p)
  \/ \E r \in RunIds : RedisGetReturns(r)
  \/ \E r \in RunIds : LoadFromRedisReturns(r)
  \/ \E r \in RunIds : CountReturns(r)
  \/ \E r \in RunIds : FindManyReturns(r)
  \/ \E r \in RunIds : AddBulkReturns(r)
  \/ \E r \in RunIds : SaveReturns(r)
  \/ \E r \in RunIds : InitializeRejected(r)
  \/ \E p \in Procs, u \in RawNames : CallAdd(p, u)
  \/ \E p \in Procs, us \in BulkLists : CallAddBulk(p, us)
  \/ \E p \in Procs : onApplicationShutdown(p)
  \/ \E p \in Procs : SaveSettles(p)
  \/ Restart

SpecRestart == InitRestart /\ [][NextRestart]_vars

(***************************************************************************)
(* UserService: strings and numbers as the service builds them.            *)
(***************************************************************************)
\* String.prototype.substring(start, end)
Substring(s, start, end) == SubSeq(s, start + 1, Min(end, Len(s)))

Base36Digits ==
  << "0", "1", "2", "3", "4", "5", "6", "7", "8", "9", "a", "b", "c", "d", "e", "f",
     "g", "h", "i", "j", "k", "l", "m", "n", "o", "p", "q", "r", "s", "t", "u", "v",
     "w", "x", "y", "z" >>

\* the characters the pattern [a-z0-9_] accepts
IsValidChar(c) == c \in SeqToSet(Base36Digits) \cup {"_"}

\* replace(/[^a-z0-9_]/g, '')
StripInvalid(s) == SelectSeq(s, IsValidChar)

\* Number.prototype.toString(36) of a non-negative integer
RECURSIVE ToString36(_)
ToString36(n) ==
  IF n < 36 THEN << Base36Digits[n + 1] >>
            ELSE ToString36(n \div 36) \o << Base36Digits[(n % 36) + 1] >>

\* the decimal digits of a non-negative integer in a template string
RECURSIVE ToDecimal(_)
ToDecimal(n) ==
  IF n < 10 THEN << Base36Digits[n + 1] >>
            ELSE ToDecimal(n \div 10) \o << Base36Digits[(n % 10) + 1] >>

(***************************************************************************)
(* The warm-up from the store alone: the adapter is unreachable, the store  *)
(* answers, and the table holds 0 to 3 rows.                                *)
(***************************************************************************)
WarmStores ==
  { <<>>, << <<"a">> >>, << <<"a">>, <<"b">> >>, << <<"a">>, <<"b">>, <<"c">> >> }

WarmConfigs == Configs \cup { [capacity |-> 6, errorRate |-> 0] }

InitWarm ==
  /\ config \in WarmConfigs
  /\ dbMode = "up"
  /\ dbRows \in WarmStores
  /\ redisMode = "down"
  /\ redisBlob = PlainBlob("absent")
  /\ ServiceInit
  /\ call = [p \in Procs |-> Idle]
  /\ callsMade = 0
  /\ ucall = [p \in Procs |-> UIdle]
  /\ validatesMade = 0
  /\ restarts = 0
  /\ carried = {}
  /\ dbEmails = [i \in 1..Len(dbRows) |-> i]

NextWarm ==
  \/ \E p \in Procs : initialize(p)
  \/ \E p \in Procs : InitializeReturns(p)
  \/ \E r \in RunIds : LoadFromRedisReturns(r)
  \/ \E r \in RunIds : CountReturns(r)
  \/ \E r \in RunIds : FindManyReturns(r)
  \/ \E r \in RunIds : AddBulkReturns(r)
  \/ \E r \in RunIds : SaveReturns(r)

SpecWarm == InitWarm /\ [][NextWarm]_vars

(***************************************************************************)
(* UserService: the store check and the caller's record.                   *)
(***************************************************************************)
NumUserProcs  == 1   \* concurrent requests UserService handles
MaxUserCalls  == 2   \* UserService calls made in one behaviour
MaxDbFailures == 2   \* failing store calls one operation meets while the store is flaky
MaxValidates  == 1   \* validateUsername calls made in one behaviour

UserProcs == 1..NumUserProcs

\* the cache answers from a filter (isAvailable lines 113-116, add line 147)
CacheReady == isInitialized /\ bloomFilter.some

\* the users table holds the username, compared case-insensitively (history of
\* the returns: what the store would answer at that moment)
StoreHolds(username) ==
  \E i \in 1..Len(dbRows) : ToLowerCase(dbRows[i]) = ToLowerCase(username)

\* prisma.user.findFirst({ where: { username: { equals, mode: 'insensitive' } } })
findFirst_Never(username) == FALSE
findFirst(username) ==
  \E i \in 1..Len(dbRows) : ToLowerCase(dbRows[i]) = ToLowerCase(username)

\* checkUsernameExistsInDb, lines 371-394: true when the lookup throws
checkUsernameExistsInDb_ErrorAbsent(username, outcome) ==
  IF outcome = "throw" THEN FALSE ELSE findFirst(username)
checkUsernameExistsInDb(username, outcome) ==
  IF outcome = "throw" THEN TRUE ELSE findFirst(username)

\* what a prisma call of the operation c can answer
UserDbOutcomes(c) ==
  CASE dbMode = "up" -> {"ok"}
    [] dbMode = "down" -> {"throw"}
    [] OTHER -> IF c.fails < MaxDbFailures THEN {"ok", "throw"} ELSE {"ok"}

\* history of a store check: absent holds the names a successful check reported
\* absent, errored the names whose latest check threw
Checked(c, username, outcome) ==
  [c EXCEPT !.fails = IF outcome = "throw" THEN @ + 1 ELSE @,
            !.checks = @ + 1,
            !.absent = IF outcome = "ok" /\ ~findFirst(username)
                         THEN @ \cup {username} ELSE @,
            !.errored = IF outcome = "throw" THEN @ \cup {username}
                                              ELSE @ \ {username}]

\* history of a cache answer: skipped records a candidate dropped without a
\* store check while the cache was not Ready
Examined(c, username) ==
  [c EXCEPT !.skipped = @ \/ (~CacheReady /\ ~isAvailable(username))]

(***************************************************************************)
(* UserService.generateUniqueUsername, lines 321-365.                      *)
(***************************************************************************)
maxRetries == 10

\* Math.random().toString(36): "0." and the base-36 digits the value needs
\* (0.5 prints as "0.i"; most values print eleven digits or so)
MathRandomStrings ==
  { <<"0", ".", "i">>,
    <<"0", ".", "x", "1", "a", "b", "c", "x", "1", "a", "b", "c", "x">> }

\* Math.random().toString(36).substring(2, 7)
UniqueSuffixes == { Substring(r, 2, 7) : r \in MathRandomStrings }

\* Date.now(): wall-clock milliseconds (not monotonic)
NowValues == { 36, 37 }

\* line 363
fallbackUsername_Decimal(username, now) == username \o <<"_">> \o ToDecimal(now)
fallbackUsername(username, now) == username \o <<"_">> \o ToString36(now)

\* generateUniqueUsername returns username: ret, path and existed are history
\* (what was returned, by which path, and whether the store held it then)
Returned(c, username, path) ==
  [c EXCEPT !.pc = "create", !.ret = username, !.path = path,
            !.existed = StoreHolds(username)]

\* the retry loop from iteration i up to its next await, lines 347-364: the
\* operation waits for a store check, or has returned the fallback
RECURSIVE RetryLoop(_, _)
RetryLoop(c, i) ==
  IF i >= c.maxRetries
    THEN { Returned([c EXCEPT !.i = i], fallbackUsername(c.username, now), "fallback") :
             now \in NowValues }
    ELSE LET candidates == { c.username \o <<"_">> \o suffix : suffix \in UniqueSuffixes }
             open == { candidate \in candidates : isAvailable(candidate) }
         IN  { [c EXCEPT !.pc = "cand_check", !.i = i, !.cand = candidate] :
                 candidate \in open }
             \cup (IF open # candidates
                     THEN RetryLoop([c EXCEPT !.skipped = @ \/ ~CacheReady], i + 1)
                     ELSE {})

\* lines 326-344 up to the first await
generateUniqueUsername_AlwaysChecks(c, baseUsername) ==
  LET stripped == Substring(StripInvalid(ToLowerCase(baseUsername)), 0, 32)
      usernames == IF Len(stripped) = 0
                     THEN { <<"u", "s", "e", "r", "_">> \o suffix : suffix \in UniqueSuffixes }
                     ELSE { stripped }
  IN  UNION { IF TRUE
                THEN { [c EXCEPT !.username = username, !.pc = "root_check",
                                 !.cand = username] }
                ELSE RetryLoop(Examined([c EXCEPT !.username = username,
                                                  !.reported = TRUE], username), 0) :
              username \in usernames }
generateUniqueUsername(c, baseUsername) ==
  LET stripped == Substring(StripInvalid(ToLowerCase(baseUsername)), 0, 32)
      usernames == IF Len(stripped) = 0
                     THEN { <<"u", "s", "e", "r", "_">> \o suffix : suffix \in UniqueSuffixes }
                     ELSE { stripped }
  IN  UNION { IF isAvailable(username)
                THEN { [c EXCEPT !.username = username, !.pc = "root_check",
                                 !.cand = username] }
                ELSE RetryLoop(Examined([c EXCEPT !.username = username,
                                                  !.reported = TRUE], username), 0) :
              username \in usernames }

\* bloomFilter.add(username) called by UserService, up to its await (lines 146-158)
CacheAdd_Dropped(username) ==
  UNCHANGED <<bloomFilter, addedLive, redisBlob>>
CacheAdd(username) ==
  \E connected \in RedisConnected, set \in RedisSetOutcomes :
    /\ bloomFilter' = add(username)
    /\ addedLive' = IF AddGuard THEN addedLive \cup {normalizeUsername(username)}
                                ELSE addedLive
    /\ redisBlob' = IF AddGuard THEN saveToRedis(add(username), connected, set)
                                ELSE redisBlob

OAuthBases == { <<"A">>, <<" ">>, <<"1">> }

\* lines 326-329 for the names the profiles carry
NormalizedRoots ==
  { Substring(StripInvalid(ToLowerCase(baseUsername)), 0, 32) : baseUsername \in OAuthBases }

\* the email of a profile that no row holds and no earlier call carried
FreshEmail == 10 + callsMade + 1

\* prisma.user.create is rejected by a unique index: the one on email that
\* findUnique({ where: { email } }) (lines 34 and 140) relies on, and
\* users_email_username_key on (email, username); no index is on username alone
InsertRejected(email, username) ==
  \/ \E i \in 1..Len(dbRows) : dbEmails[i] = email
  \/ \E i \in 1..Len(dbRows) : dbEmails[i] = email /\ dbRows[i] = username

\* findOrCreateOAuthUser for a profile with no account and no user yet, lines
\* 92-167: the call of generateUniqueUsername up to its first await
findOrCreateOAuthUser(p, baseUsername) ==
  /\ ucall[p].pc = "idle"
  /\ callsMade < MaxUserCalls
  /\ callsMade' = callsMade + 1
  /\ \E c \in generateUniqueUsername([UIdle EXCEPT !.op = "oauth",
                                                   !.maxRetries = maxRetries,
                                                   !.email = FreshEmail], baseUsername) :
       ucall' = [ucall EXCEPT ![p] = c]
  /\ UNCHANGED <<config, dbMode, dbRows, redisMode, redisBlob, bloomFilter,
                 isInitialized, addedLive, validatesMade>>
  /\ UNCHANGED <<cvars, rvars>>

RootCheckReturns_Inverted(p) ==
  /\ ucall[p].pc = "root_check"
  /\ \E outcome \in UserDbOutcomes(ucall[p]) :
       LET c == Checked(ucall[p], ucall[p].cand, outcome) IN
       IF checkUsernameExistsInDb(ucall[p].cand, outcome)
         THEN /\ ucall' = [ucall EXCEPT ![p] = Returned(c, c.cand, "root")]
              /\ UNCHANGED <<bloomFilter, addedLive, redisBlob>>
         ELSE /\ CacheAdd(c.cand)
              /\ ucall' = [ucall EXCEPT ![p] = [c EXCEPT !.pc = "root_add"]]
  /\ UNCHANGED <<config, dbMode, dbRows, redisMode, isInitialized, callsMade,
                 validatesMade>>
  /\ UNCHANGED <<cvars, rvars>>

\* the store check of the root returns, lines 338-343
RootCheckReturns(p) ==
  /\ ucall[p].pc = "root_check"
  /\ \E outcome \in UserDbOutcomes(ucall[p]) :
       LET c == Checked(ucall[p], ucall[p].cand, outcome) IN
       IF ~checkUsernameExistsInDb(ucall[p].cand, outcome)
         THEN /\ ucall' = [ucall EXCEPT ![p] = Returned(c, c.cand, "root")]
              /\ UNCHANGED <<bloomFilter, addedLive, redisBlob>>
         ELSE /\ CacheAdd(c.cand)
              /\ ucall' = [ucall EXCEPT ![p] = [c EXCEPT !.pc = "root_add"]]
  /\ UNCHANGED <<config, dbMode, dbRows, redisMode, isInitialized, callsMade,
                 validatesMade>>
  /\ UNCHANGED <<cvars, rvars>>

\* the store check of a candidate returns, lines 353-358
CandidateCheckReturns(p) ==
  /\ ucall[p].pc = "cand_check"
  /\ \E outcome \in UserDbOutcomes(ucall[p]) :
       LET c == Checked(ucall[p], ucall[p].cand, outcome) IN
       IF ~checkUsernameExistsInDb(ucall[p].cand, outcome)
         THEN /\ ucall' = [ucall EXCEPT ![p] = Returned(c, c.cand, "candidate")]
              /\ UNCHANGED <<bloomFilter, addedLive, redisBlob>>
         ELSE /\ CacheAdd(c.cand)
              /\ ucall' = [ucall EXCEPT ![p] = [c EXCEPT !.pc = "cand_add"]]
  /\ UNCHANGED <<config, dbMode, dbRows, redisMode, isInitialized, callsMade,
                 validatesMade>>
  /\ UNCHANGED <<cvars, rvars>>

\* bloomFilter.add returns and the retry loop runs on, lines 343-364
UniqueAddReturns_SameAttempt(p) ==
  /\ ucall[p].pc \in {"root_add", "cand_add"}
  /\ \E c \in RetryLoop(ucall[p], IF ucall[p].pc = "root_add" THEN 0 ELSE ucall[p].i) :
       ucall' = [ucall EXCEPT ![p] = c]
  /\ UNCHANGED <<config, dbMode, dbRows, redisMode, redisBlob, bloomFilter,
                 isInitialized, addedLive, callsMade, validatesMade>>
  /\ UNCHANGED <<cvars, rvars>>
UniqueAddReturns(p) ==
  /\ ucall[p].pc \in {"root_add", "cand_add"}
  /\ \E c \in RetryLoop(ucall[p], IF ucall[p].pc = "root_add" THEN 0 ELSE ucall[p].i + 1) :
       ucall' = [ucall EXCEPT ![p] = c]
  /\ UNCHANGED <<config, dbMode, dbRows, redisMode, redisBlob, bloomFilter,
                 isInitialized, addedLive, callsMade, validatesMade>>
  /\ UNCHANGED <<cvars, rvars>>

\* prisma.user.create with the generated username returns, lines 167-202: the
\* row is in the table and bloomFilter.add runs up to its await
CreateReturns(p) ==
  /\ ucall[p].pc = "create"
  /\ \E outcome \in UserDbOutcomes(ucall[p]) :
       IF outcome = "throw" \/ InsertRejected(ucall[p].email, ucall[p].ret)
         THEN /\ ucall' = [ucall EXCEPT ![p] =
                   [@ EXCEPT !.pc = "idle", !.threw = TRUE,
                             !.fails = IF outcome = "throw" THEN @ + 1 ELSE @]]
              /\ UNCHANGED <<dbRows, dbEmails, bloomFilter, addedLive, redisBlob>>
         ELSE /\ dbRows' = Append(dbRows, ucall[p].ret)
              /\ dbEmails' = Append(dbEmails, ucall[p].email)
              /\ CacheAdd(ucall[p].ret)
              /\ ucall' = [ucall EXCEPT ![p] = [@ EXCEPT !.pc = "final_add"]]
  /\ UNCHANGED <<config, dbMode, redisMode, isInitialized, callsMade, validatesMade>>
  /\ UNCHANGED <<cvars, restarts, carried>>

\* bloomFilter.add returns and findOrCreateOAuthUser returns the user, lines 202-231
OAuthAddReturns(p) ==
  /\ ucall[p].pc = "final_add"
  /\ ucall' = [ucall EXCEPT ![p] = [@ EXCEPT !.pc = "idle"]]
  /\ UNCHANGED <<config, dbMode, dbRows, redisMode, redisBlob, bloomFilter,
                 isInitialized, addedLive, callsMade, validatesMade>>
  /\ UNCHANGED <<cvars, rvars>>

(***************************************************************************)
(* UserService.generateUsernameSuggestions, lines 440-685.                 *)
(***************************************************************************)
\* validateUsername's default, line 404 (the controller passes no other value)
maxSuggestions == 5

commonSuffixes ==
  << <<"1", "2", "3">>,
     <<"2", "0", "2", "4">>,
     <<"2", "0", "2", "5">>,
     <<"p", "r", "o">>,
     <<"d", "e", "v">>,
     <<"a", "i">>,
     <<"c", "o">>,
     <<"i", "o">>,
     <<"m", "e">>,
     <<"x", "y", "z">> >>

randomWords ==
  << <<"c", "o", "o", "l">>,
     <<"n", "i", "c", "e">>,
     <<"b", "e", "s", "t">>,
     <<"t", "o", "p">>,
     <<"n", "e", "w">>,
     <<"s", "u", "p", "e", "r">>,
     <<"m", "e", "g", "a">>,
     <<"u", "l", "t", "r", "a">>,
     <<"p", "r", "i", "m", "e">>,
     <<"s", "t", "a", "r">> >>

numbers == << 1, 2, 3, 5, 7, 9, 11, 13, 17, 19, 23, 27, 42, 99, 100, 200, 404, 500 >>

\* what Math.random() and new Date() give the strategies
RandomSuffixes == { <<"x">>, <<"1">> }   \* strategy 1: toString(36).substring(2, 6)
RandomNumbers  == { 11 }                 \* strategies 3, 10: Math.floor(Math.random() * n) + m
RandomChars    == { <<"x">> }            \* strategies 5, 7, 9, 10: toString(36).substring(2, j)
RandomDigits   == { 1 }                  \* strategy 5: Math.floor(Math.random() * 9) + 1
RandomIndexes  == { 0 }                  \* strategy 6: Math.floor(Math.random() * randomWords.length)
Years          == { 2026 }               \* strategy 8: new Date().getFullYear()

NoRnd == [a |-> <<>>, b |-> <<>>, n |-> 0]

\* the number of loop iterations a strategy may start
Budget(k) ==
  CASE k = 1 -> 100
    [] k = 2 -> Len(SubSeq(numbers, 1, 10))
    [] k = 3 -> 50
    [] k = 4 -> Len(commonSuffixes)
    [] k = 5 -> 30
    [] k = 6 -> 20
    [] k = 7 -> 20
    [] k = 8 -> 4
    [] k = 9 -> 30
    [] OTHER -> 20

\* the number of candidates one iteration of a strategy may try
Candidates(k) ==
  CASE k \in {2, 4, 5} -> 2
    [] k \in {9, 10} -> 3
    [] OTHER -> 1

\* the extra condition of strategies 5 and 7, lines 567 and 602
Applies(k, cleanUsername) ==
  CASE k = 5 -> Len(cleanUsername) > 4
    [] k = 7 -> Len(cleanUsername) > 6
    [] OTHER -> TRUE

Full_OneShort(c) == Len(c.suggestions) >= maxSuggestions - 1
Full(c) == Len(c.suggestions) >= maxSuggestions

\* the first candidate site from strategy k on; k = 11 is the return of line 684
RECURSIVE EnterStrategy(_, _)
EnterStrategy(k, c) ==
  IF k > 10 THEN [k |-> 11, attempts |-> 0, sub |-> 0]
  ELSE IF ~Full(c) /\ Applies(k, c.clean)
    THEN [k |-> k, attempts |-> 1, sub |-> 1]
    ELSE EnterStrategy(k + 1, c)

\* the candidate site the control flow reaches after the one of c
NextSite_NoInnerCheck(c) ==
  IF c.k = 0 THEN EnterStrategy(1, c)
  ELSE IF c.sub < Candidates(c.k)
    THEN [k |-> c.k, attempts |-> c.attempts, sub |-> c.sub + 1]
  ELSE IF ~Full(c) /\ c.attempts < Budget(c.k)
    THEN [k |-> c.k, attempts |-> c.attempts + 1, sub |-> 1]
  ELSE EnterStrategy(c.k + 1, c)
NextSite(c) ==
  IF c.k = 0 THEN EnterStrategy(1, c)
  ELSE IF c.sub < Candidates(c.k) /\ ~Full(c)
    THEN [k |-> c.k, attempts |-> c.attempts, sub |-> c.sub + 1]
  ELSE IF ~Full(c) /\ c.attempts < Budget(c.k)
    THEN [k |-> c.k, attempts |-> c.attempts + 1, sub |-> 1]
  ELSE EnterStrategy(c.k + 1, c)

\* the random values an iteration draws before its first candidate
RandomDraws(site, c) ==
  IF site.sub # 1 THEN { c.rnd }
  ELSE CASE site.k = 1 -> { [NoRnd EXCEPT !.a = a] : a \in RandomSuffixes }
         [] site.k = 3 -> { [NoRnd EXCEPT !.n = n] : n \in RandomNumbers }
         [] site.k = 5 -> { [NoRnd EXCEPT !.a = a, !.n = n] :
                              a \in RandomChars, n \in RandomDigits }
         [] site.k = 6 -> { [NoRnd EXCEPT !.n = n] : n \in RandomIndexes }
         [] site.k = 7 -> { [NoRnd EXCEPT !.a = a] : a \in RandomChars }
         [] site.k = 8 -> IF site.attempts = 1
                            THEN { [NoRnd EXCEPT !.n = n] : n \in Years }
                            ELSE { c.rnd }
         [] site.k = 9 -> { [NoRnd EXCEPT !.a = a, !.b = b] :
                              a \in RandomChars, b \in RandomChars }
         [] site.k = 10 -> { [NoRnd EXCEPT !.a = a, !.b = b, !.n = n] :
                               a \in RandomChars, b \in RandomChars, n \in RandomNumbers }
         [] OTHER -> { NoRnd }

\* the candidate of a site, lines 518-674
Candidate(site, cleanUsername, rnd) ==
  LET us == <<"_">>
      len == Len(cleanUsername)
      midPoint == len \div 2
      part1 == Substring(cleanUsername, 0, midPoint)
      part2 == Substring(cleanUsername, midPoint, len)
      year == ToDecimal(rnd.n)
      yearShort == Substring(year, 2, Len(year))
      num == ToDecimal(rnd.n)
  IN  CASE site.k = 1 -> cleanUsername \o us \o rnd.a
        [] site.k = 2 ->
             IF site.sub = 1 THEN cleanUsername \o ToDecimal(numbers[site.attempts])
                             ELSE cleanUsername \o us \o ToDecimal(numbers[site.attempts])
        [] site.k = 3 -> cleanUsername \o num
        [] site.k = 4 ->
             IF site.sub = 1 THEN cleanUsername \o commonSuffixes[site.attempts]
                             ELSE cleanUsername \o us \o commonSuffixes[site.attempts]
        [] site.k = 5 ->
             IF site.sub = 1 THEN part1 \o rnd.a \o part2
                             ELSE part1 \o num \o part2
        [] site.k = 6 -> cleanUsername \o us \o randomWords[rnd.n + 1]
        [] site.k = 7 -> Substring(cleanUsername, 0, Max(4, len - 3)) \o us \o rnd.a
        [] site.k = 8 ->
             CASE site.attempts = 1 -> cleanUsername \o year
               [] site.attempts = 2 -> cleanUsername \o yearShort
               [] site.attempts = 3 -> cleanUsername \o us \o year
               [] OTHER -> cleanUsername \o us \o yearShort
        [] site.k = 9 ->
             CASE site.sub = 1 -> rnd.a \o us \o cleanUsername
               [] site.sub = 2 -> cleanUsername \o us \o rnd.b
               [] OTHER -> rnd.a \o us \o cleanUsername \o us \o rnd.b
        [] OTHER ->
             CASE site.sub = 1 -> Substring(cleanUsername, 0, 3) \o rnd.a \o num
               [] site.sub = 2 -> rnd.a \o us \o Substring(cleanUsername, 0, 4) \o us \o rnd.b
               [] OTHER -> Substring(cleanUsername, 0, 4) \o num \o us \o rnd.a

\* checkAndAddCandidate up to its await, lines 485-502
checkAndAddCandidate_NoAttempted(c, candidate) ==
  IF Len(candidate) > 32 \/ Len(candidate) < 3
    THEN [c EXCEPT !.pc = "s_wait"]
    ELSE LET c1 == Examined([c EXCEPT !.attemptedUsernames = @ \cup {candidate}],
                            candidate)
         IN  IF ~isAvailable(candidate)
               THEN [c1 EXCEPT !.pc = "s_wait"]
               ELSE [c1 EXCEPT !.pc = "s_check", !.cand = candidate]
checkAndAddCandidate(c, candidate) ==
  IF Len(candidate) > 32 \/ Len(candidate) < 3 \/ candidate \in c.attemptedUsernames
    THEN [c EXCEPT !.pc = "s_wait"]
    ELSE LET c1 == Examined([c EXCEPT !.attemptedUsernames = @ \cup {candidate}],
                            candidate)
         IN  IF ~isAvailable(candidate)
               THEN [c1 EXCEPT !.pc = "s_wait"]
               ELSE [c1 EXCEPT !.pc = "s_check", !.cand = candidate]

\* Math.floor(Math.random() * (i + 1)) for the position i (counted from 1)
ShuffleDraws(i) == { 1, i }

Swap(array, i, j) == [array EXCEPT ![i] = array[j], ![j] = array[i]]

\* shuffleArray, lines 690-697, from position i down
RECURSIVE ShuffleFrom(_, _)
ShuffleFrom(array, i) ==
  IF i <= 1 THEN { array }
  ELSE UNION { ShuffleFrom(Swap(array, i, j), i - 1) : j \in ShuffleDraws(i) }

shuffleArray(array) == ShuffleFrom(array, Len(array))

\* generateUsernameSuggestions from the site of c up to the next await, or to
\* the return of line 684 and of validateUsername, lines 428-431
SuggestOn(c) ==
  LET site == NextSite(c) IN
  IF site.k = 11
    THEN { [c EXCEPT !.pc = "idle", !.k = 11, !.attempts = 0, !.sub = 0, !.rnd = NoRnd,
                     !.cand = <<>>, !.avail = "false", !.listed = TRUE,
                     !.existed = StoreHolds(c.username),
                     !.result = Substring(shuffled, 0, maxSuggestions)] :
             shuffled \in shuffleArray(c.suggestions) }
    ELSE { checkAndAddCandidate(
             [c EXCEPT !.k = site.k, !.attempts = site.attempts, !.sub = site.sub,
                       !.rnd = rnd, !.cand = <<>>],
             Candidate(site, c.clean, rnd)) : rnd \in RandomDraws(site, c) }

\* lines 444-453, then the strategies
generateUsernameSuggestions(c) ==
  LET stripped == Substring(StripInvalid(c.username), 0, 32) IN
  SuggestOn([c EXCEPT !.clean = IF Len(stripped) = 0 THEN <<"u", "s", "e", "r">>
                                                     ELSE stripped])

(***************************************************************************)
(* UserService.validateUsername, lines 402-432.                            *)
(***************************************************************************)
ValidateNames == { <<"A", " ">>, <<"a", "b", "c", "a", "b", "c", "a">> }

\* validateUsername(username) up to its first await, lines 407-423
validateUsername(p, username) ==
  /\ ucall[p].pc = "idle"
  /\ callsMade < MaxUserCalls
  /\ validatesMade < MaxValidates
  /\ callsMade' = callsMade + 1
  /\ validatesMade' = validatesMade + 1
  /\ LET normalizedUsername == Trim(ToLowerCase(username))
         c == [UIdle EXCEPT !.op = "validate", !.username = normalizedUsername]
     IN  IF isAvailable(normalizedUsername)
           THEN ucall' = [ucall EXCEPT ![p] =
                            [c EXCEPT !.pc = "v_check", !.cand = normalizedUsername]]
           ELSE \E c1 \in generateUsernameSuggestions(Examined(c, normalizedUsername)) :
                  ucall' = [ucall EXCEPT ![p] = c1]
  /\ UNCHANGED <<config, dbMode, dbRows, redisMode, redisBlob, bloomFilter,
                 isInitialized, addedLive>>
  /\ UNCHANGED <<cvars, rvars>>

\* the store check of the normalized username returns, lines 414-419
ValidateCheckReturns(p) ==
  /\ ucall[p].pc = "v_check"
  /\ \E outcome \in UserDbOutcomes(ucall[p]) :
       LET c == Checked(ucall[p], ucall[p].cand, outcome) IN
       IF ~checkUsernameExistsInDb(ucall[p].cand, outcome)
         THEN /\ ucall' = [ucall EXCEPT ![p] =
                   [c EXCEPT !.pc = "idle", !.avail = "true",
                             !.existed = StoreHolds(c.username)]]
              /\ UNCHANGED <<bloomFilter, addedLive, redisBlob>>
         ELSE /\ CacheAdd(c.cand)
              /\ ucall' = [ucall EXCEPT ![p] = [c EXCEPT !.pc = "v_add"]]
  /\ UNCHANGED <<config, dbMode, dbRows, redisMode, isInitialized, callsMade,
                 validatesMade>>
  /\ UNCHANGED <<cvars, rvars>>

\* bloomFilter.add returns and generateUsernameSuggestions starts, lines 419-426
ValidateAddReturns(p) ==
  /\ ucall[p].pc = "v_add"
  /\ \E c \in generateUsernameSuggestions(ucall[p]) :
       ucall' = [ucall EXCEPT ![p] = c]
  /\ UNCHANGED <<config, dbMode, dbRows, redisMode, redisBlob, bloomFilter,
                 isInitialized, addedLive, callsMade, validatesMade>>
  /\ UNCHANGED <<cvars, rvars>>

\* checkAndAddCandidate returned false before its await; the strategies run on
SuggestionResumes(p) ==
  /\ ucall[p].pc = "s_wait"
  /\ \E c \in SuggestOn(ucall[p]) :
       ucall' = [ucall EXCEPT ![p] = c]
  /\ UNCHANGED <<config, dbMode, dbRows, redisMode, redisBlob, bloomFilter,
                 isInitialized, addedLive, callsMade, validatesMade>>
  /\ UNCHANGED <<cvars, rvars>>

\* the store check of a suggestion candidate returns, lines 502-507; the
\* strategies run on
SuggestionCheckReturns(p) ==
  /\ ucall[p].pc = "s_check"
  /\ \E outcome \in UserDbOutcomes(ucall[p]) :
       LET c == Checked(ucall[p], ucall[p].cand, outcome)
           c1 == IF ~checkUsernameExistsInDb(ucall[p].cand, outcome)
                   THEN [c EXCEPT !.suggestions = Append(@, c.cand)]
                   ELSE c
       IN  \E c2 \in SuggestOn(c1) :
             ucall' = [ucall EXCEPT ![p] = c2]
  /\ UNCHANGED <<config, dbMode, dbRows, redisMode, redisBlob, bloomFilter,
                 isInitialized, addedLive, callsMade, validatesMade>>
  /\ UNCHANGED <<cvars, rvars>>

(***************************************************************************)
(* UserService over a store and a cache that serve requests.               *)
(***************************************************************************)
UserStores == { <<>>, << <<"a">>, <<"b">>, <<"c">> >> }

\* the cache the requests find: not Ready, Ready and empty, or Ready with the
\* filter restored from a snapshot that holds the store's names
UserCaches(store) ==
  { [ready |-> FALSE, filter |-> NoFilter],
    [ready |-> TRUE, filter |-> BloomCreate(DEFAULT_CAPACITY, DEFAULT_ERROR_RATE)],
    [ready |-> TRUE,
     filter |-> BloomAddAll(BloomCreate(DEFAULT_CAPACITY, DEFAULT_ERROR_RATE), store)] }

InitUser ==
  /\ config = [capacity |-> 0, errorRate |-> 0]
  /\ dbMode \in {"flaky", "down"}
  /\ dbRows \in UserStores
  /\ redisMode = "down"
  /\ redisBlob = PlainBlob("absent")
  /\ \E cache \in UserCaches(dbRows) :
       /\ bloomFilter = cache.filter
       /\ isInitialized = cache.ready
       /\ runsStarted = IF cache.ready THEN 1 ELSE 0
       /\ run = [r \in RunIds |->
                   IF cache.ready /\ r = 1
                     THEN [NoRun EXCEPT !.pc = "done", !.path = "redis"] ELSE NoRun]
  /\ initializationPromise = 0
  /\ addedLive = {}
  /\ call = [p \in Procs |-> Idle]
  /\ callsMade = 0
  /\ ucall = [p \in Procs |-> UIdle]
  /\ validatesMade = 0
  /\ restarts = 0
  /\ carried = {}
  /\ dbEmails = [i \in 1..Len(dbRows) |-> i]

NextUser ==
  \/ \E p \in UserProcs, b \in OAuthBases : findOrCreateOAuthUser(p, b)
  \/ \E p \in UserProcs : RootCheckReturns(p)
  \/ \E p \in UserProcs : CandidateCheckReturns(p)
  \/ \E p \in UserProcs : UniqueAddReturns(p)
  \/ \E p \in UserProcs : CreateReturns(p)
  \/ \E p \in UserProcs : OAuthAddReturns(p)
  \/ \E p \in UserProcs, u \in ValidateNames : validateUsername(p, u)
  \/ \E p \in UserProcs : ValidateCheckReturns(p)
  \/ \E p \in UserProcs : ValidateAddReturns(p)
  \/ \E p \in UserProcs : SuggestionResumes(p)
  \/ \E p \in UserProcs : SuggestionCheckReturns(p)

SpecUser == InitUser /\ [][NextUser]_vars

(***************************************************************************)
(* generateUniqueUsername called with a maxRetries of the caller's choice   *)
(* (lines 321-324; findOrCreateOAuthUser passes none and gets 10).          *)
(***************************************************************************)
MaxRetriesValues == { 0, 1 }

\* the names the callers pass: those of the profiles and one of 32 characters
UniqueBases == OAuthBases \cup { [n \in 1..32 |-> "a"] }

\* generateUniqueUsername(baseUsername, m) up to its first await; a call that
\* has returned (pc "create" here: the name is with the caller) can be followed
\* by another
generateUniqueUsernameCalled(p, baseUsername, m) ==
  /\ \/ ucall[p].pc = "idle"
     \/ ucall[p].op = "unique" /\ ucall[p].pc = "create"
  /\ callsMade < MaxUserCalls
  /\ callsMade' = callsMade + 1
  /\ \E c \in generateUniqueUsername([UIdle EXCEPT !.op = "unique",
                                                   !.maxRetries = m], baseUsername) :
       ucall' = [ucall EXCEPT ![p] = c]
  /\ UNCHANGED <<config, dbMode, dbRows, redisMode, redisBlob, bloomFilter,
                 isInitialized, addedLive, validatesMade>>
  /\ UNCHANGED <<cvars, rvars>>

NextUnique ==
  \/ \E p \in UserProcs, b \in UniqueBases, m \in MaxRetriesValues :
       generateUniqueUsernameCalled(p, b, m)
  \/ \E p \in UserProcs : RootCheckReturns(p)
  \/ \E p \in UserProcs : CandidateCheckReturns(p)
  \/ \E p \in UserProcs : UniqueAddReturns(p)

SpecUnique == InitUser /\ [][NextUnique]_vars

(***************************************************************************)
(* generateUsernameSuggestions called with a base of the caller's choice    *)
(* (lines 440-685; validateUsername passes the name it found taken).        *)
(***************************************************************************)
\* bases of 2, 31 and 32 characters (32 is the longest the DTO admits)
SuggestBases ==
  { <<"a", "b">>, [n \in 1..31 |-> "a"], [n \in 1..32 |-> "a"] }

\* generateUsernameSuggestions(baseUsername, maxSuggestions) up to its first await
generateUsernameSuggestionsCalled(p, baseUsername) ==
  /\ ucall[p].pc = "idle"
  /\ callsMade < MaxUserCalls
  /\ callsMade' = callsMade + 1
  /\ \E c \in generateUsernameSuggestions([UIdle EXCEPT !.op = "suggest",
                                                        !.username = baseUsername]) :
       ucall' = [ucall EXCEPT ![p] = c]
  /\ UNCHANGED <<config, dbMode, dbRows, redisMode, redisBlob, bloomFilter,
                 isInitialized, addedLive, validatesMade>>
  /\ UNCHANGED <<cvars, rvars>>

NextSuggest ==
  \/ \E p \in UserProcs, b \in SuggestBases : generateUsernameSuggestionsCalled(p, b)
  \/ \E p \in UserProcs : SuggestionResumes(p)
  \/ \E p \in UserProcs : SuggestionCheckReturns(p)

SpecSuggest == InitUser /\ [][NextSuggest]_vars

(***************************************************************************)
(* UserService.createUser (lines 24-90) and findOrCreateOAuthUser (lines   *)
(* 92-232) from their first store call, for concurrent requests.           *)
(***************************************************************************)
\* the emails the requests carry: those of rows 1 and 2 of the store, and two
\* that no row of the initial store holds
SignupEmails == { 1, 2, 11, 12 }

\* the emails of the users whose isActive is false
Deactivated == { 2 }

\* the row prisma.user.findUnique({ where: { email } }) returns (0: null)
UserByEmail(email) ==
  IF \E i \in 1..Len(dbRows) : dbEmails[i] = email
    THEN CHOOSE i \in 1..Len(dbRows) : dbEmails[i] = email
    ELSE 0

\* user.isActive of row i
isActive(i) == dbEmails[i] \notin Deactivated

\* a request has thrown
Thrown(c) == [c EXCEPT !.pc = "idle", !.threw = TRUE]

\* createUser(userData) up to its first await, lines 24-38 (the email is valid)
createUser(p, email, username) ==
  /\ ucall[p].pc = "idle"
  /\ callsMade < MaxUserCalls
  /\ callsMade' = callsMade + 1
  /\ ucall' = [ucall EXCEPT ![p] =
       [UIdle EXCEPT !.op = "signup", !.pc = "cu_email", !.email = email,
                     !.username = username]]
  /\ UNCHANGED <<config, dbMode, dbRows, redisMode, redisBlob, bloomFilter,
                 isInitialized, addedLive, validatesMade>>
  /\ UNCHANGED <<cvars, rvars>>

\* the lookup by email returns, lines 34-62: a conflict, or the password is
\* hashed (argon2.hash touches nothing shared) and the lookup by username issued
CreateUserEmailReturns(p) ==
  /\ ucall[p].pc = "cu_email"
  /\ ucall' = [ucall EXCEPT ![p] =
       IF UserByEmail(@.email) # 0
         THEN Thrown(@)
         ELSE [@ EXCEPT !.pc = "cu_check",
                        !.cand = ToLowerCase(Trim(ucall[p].username))]]
  /\ UNCHANGED <<config, dbMode, dbRows, redisMode, redisBlob, bloomFilter,
                 isInitialized, addedLive, callsMade, validatesMade>>
  /\ UNCHANGED <<cvars, rvars>>

\* the lookup by username returns, lines 52-68: a conflict, or the insert is issued
CreateUserCheckReturns(p) ==
  /\ ucall[p].pc = "cu_check"
  /\ ucall' = [ucall EXCEPT ![p] =
       IF findFirst(@.cand)
         THEN Thrown(@)
         ELSE [@ EXCEPT !.pc = "cu_create", !.checks = @ + 1]]
  /\ UNCHANGED <<config, dbMode, dbRows, redisMode, redisBlob, bloomFilter,
                 isInitialized, addedLive, callsMade, validatesMade>>
  /\ UNCHANGED <<cvars, rvars>>

\* prisma.user.create returns, lines 68-87: the row is in the table and
\* bloomFilter.add runs up to its await, or a unique index rejected the row
CreateUserInsertReturns(p) ==
  /\ ucall[p].pc = "cu_create"
  /\ IF InsertRejected(ucall[p].email, ucall[p].cand)
       THEN /\ ucall' = [ucall EXCEPT ![p] = Thrown(@)]
            /\ UNCHANGED <<dbRows, dbEmails, bloomFilter, addedLive, redisBlob>>
       ELSE /\ dbRows' = Append(dbRows, ucall[p].cand)
            /\ dbEmails' = Append(dbEmails, ucall[p].email)
            /\ CacheAdd(ucall[p].cand)
            /\ ucall' = [ucall EXCEPT ![p] = [@ EXCEPT !.pc = "cu_add",
                                                             !.ret = ucall[p].cand]]
  /\ UNCHANGED <<config, dbMode, redisMode, isInitialized, callsMade, validatesMade>>
  /\ UNCHANGED <<cvars, restarts, carried>>

\* bloomFilter.add returns and createUser returns the user, lines 87-89
CreateUserAddReturns(p) ==
  /\ ucall[p].pc = "cu_add"
  /\ ucall' = [ucall EXCEPT ![p] = [@ EXCEPT !.pc = "idle"]]
  /\ UNCHANGED <<config, dbMode, dbRows, redisMode, redisBlob, bloomFilter,
                 isInitialized, addedLive, callsMade, validatesMade>>
  /\ UNCHANGED <<cvars, rvars>>

\* findOrCreateOAuthUser(profile) up to its first await, lines 92-107
findOrCreateOAuthUserCalled(p, email, username) ==
  /\ ucall[p].pc = "idle"
  /\ callsMade < MaxUserCalls
  /\ callsMade' = callsMade + 1
  /\ ucall' = [ucall EXCEPT ![p] =
       [UIdle EXCEPT !.op = "oauth", !.pc = "oa_account", !.email = email,
                     !.username = username, !.maxRetries = maxRetries]]
  /\ UNCHANGED <<config, dbMode, dbRows, redisMode, redisBlob, bloomFilter,
                 isInitialized, addedLive, validatesMade>>
  /\ UNCHANGED <<cvars, rvars>>

\* prisma.account.findUnique returns, lines 93-140: null, or the account with
\* its user (the accounts table is the environment's: account is the row of
\* the user it answers, 0 for null); path is history
AccountLookupReturns(p) ==
  /\ ucall[p].pc = "oa_account"
  /\ \E account \in 0..Len(dbRows) :
       ucall' = [ucall EXCEPT ![p] =
         IF account # 0
           THEN IF isActive(account)
                  THEN Thrown([@ EXCEPT !.account = account, !.path = "deactivated"])
                  ELSE [@ EXCEPT !.pc = "oa_update", !.account = account]
           ELSE [@ EXCEPT !.pc = "oa_user"]]
  /\ UNCHANGED <<config, dbMode, dbRows, redisMode, redisBlob, bloomFilter,
                 isInitialized, addedLive, callsMade, validatesMade>>
  /\ UNCHANGED <<cvars, rvars>>

\* prisma.account.update returns and the account's user is returned, lines 117-133
AccountUpdateReturns(p) ==
  /\ ucall[p].pc = "oa_update"
  /\ ucall' = [ucall EXCEPT ![p] =
       [@ EXCEPT !.pc = "idle", !.ret = dbRows[ucall[p].account], !.path = "account"]]
  /\ UNCHANGED <<config, dbMode, dbRows, redisMode, redisBlob, bloomFilter,
                 isInitialized, addedLive, callsMade, validatesMade>>
  /\ UNCHANGED <<cvars, rvars>>

\* prisma.user.findUnique by email returns, lines 140-166 and 203-221: the
\* user is deactivated, or there is none and generateUniqueUsername runs up to
\* its first await, or the account is linked to the user (account.create, when
\* the user has none for the provider, is one more store call before the update)
UserLookupReturns(p) ==
  /\ ucall[p].pc = "oa_user"
  /\ LET c == ucall[p]
         user == UserByEmail(c.email)
     IN  \E d \in IF user = 0
                    THEN generateUniqueUsername(c, c.username)
                    ELSE IF ~isActive(user)
                      THEN { Thrown([c EXCEPT !.path = "deactivated"]) }
                      ELSE { [c EXCEPT !.pc = "oa_login", !.account = user] } :
           ucall' = [ucall EXCEPT ![p] = d]
  /\ UNCHANGED <<config, dbMode, dbRows, redisMode, redisBlob, bloomFilter,
                 isInitialized, addedLive, callsMade, validatesMade>>
  /\ UNCHANGED <<cvars, rvars>>

\* prisma.user.update of lastLoginAt returns and the user is returned, lines 223-231
LoginUpdateReturns(p) ==
  /\ ucall[p].pc = "oa_login"
  /\ ucall' = [ucall EXCEPT ![p] =
       [@ EXCEPT !.pc = "idle", !.ret = dbRows[ucall[p].account], !.path = "linked"]]
  /\ UNCHANGED <<config, dbMode, dbRows, redisMode, redisBlob, bloomFilter,
                 isInitialized, addedLive, callsMade, validatesMade>>
  /\ UNCHANGED <<cvars, rvars>>

\* the names the sign-up forms and the profiles carry
SignupNames == { <<"A">>, <<"a">> }

InitSignup ==
  /\ config = [capacity |-> 0, errorRate |-> 0]
  /\ dbMode = "up"
  /\ dbRows \in UserStores
  /\ redisMode = "down"
  /\ redisBlob = PlainBlob("absent")
  /\ \E cache \in UserCaches(dbRows) :
       /\ bloomFilter = cache.filter
       /\ isInitialized = cache.ready
       /\ runsStarted = IF cache.ready THEN 1 ELSE 0
       /\ run = [r \in RunIds |->
                   IF cache.ready /\ r = 1
                     THEN [NoRun EXCEPT !.pc = "done", !.path = "redis"] ELSE NoRun]
  /\ initializationPromise = 0
  /\ addedLive = {}
  /\ call = [p \in Procs |-> Idle]
  /\ callsMade = 0
  /\ ucall = [p \in Procs |-> UIdle]
  /\ validatesMade = 0
  /\ restarts = 0
  /\ carried = {}
  /\ dbEmails = [i \in 1..Len(dbRows) |-> i]

NextSignup ==
  \/ \E p \in Procs, e \in SignupEmails, u \in SignupNames : createUser(p, e, u)
  \/ \E p \in Procs : CreateUserEmailReturns(p)
  \/ \E p \in Procs : CreateUserCheckReturns(p)
  \/ \E p \in Procs : CreateUserInsertReturns(p)
  \/ \E p \in Procs : CreateUserAddReturns(p)
  \/ \E p \in Procs, e \in SignupEmails, u \in SignupNames :
       findOrCreateOAuthUserCalled(p, e, u)
  \/ \E p \in Procs : AccountLookupReturns(p)
  \/ \E p \in Procs : AccountUpdateReturns(p)
  \/ \E p \in Procs : UserLookupReturns(p)
  \/ \E p \in Procs : LoginUpdateReturns(p)
  \/ \E p \in Procs : RootCheckReturns(p)
  \/ \E p \in Procs : CandidateCheckReturns(p)
  \/ \E p \in Procs : UniqueAddReturns(p)
  \/ \E p \in Procs : CreateReturns(p)
  \/ \E p \in Procs : OAuthAddReturns(p)

SpecSignup == InitSignup /\ [][NextSignup]_vars

(***************************************************************************)
(* Properties of the life cycle.                                           *)
(***************************************************************************)

\* C3: overlapping initialize() calls share one doInitialize sequence: at most
\* one sequence is in flight, while the state is not Ready after the first call
\* the promise to join is that sequence, every caller still waiting waits on it,
\* and a call resolves only after the state has become Ready.
C3_SingleFlight ==
  /\ Cardinality(InFlight) <= 1
  /\ (~isInitialized /\ runsStarted > 0) => initializationPromise \in InFlight
  /\ \A p \in Procs :
       (call[p].pc = "await_init" /\ run[call[p].run].pc # "done")
         => call[p].run = initializationPromise
  /\ \A p \in Procs :
       (call[p].op \in {"initialize", "reinitialize"} /\ call[p].pc = "idle")
         => call[p].ready

\* two overlapping initialize() calls have resolved on the one sequence started,
\* which scanned the store
C3_Witness ==
  /\ \A p \in Procs : call[p].op = "initialize" /\ call[p].pc = "idle" /\ call[p].ready
  /\ runsStarted = 1
  /\ run[1].path = "db"
  /\ isInitialized

\* C7: after the only call made, an initialize() that missed the snapshot and
\* finished initializeFromDatabase without error, every username of the store
\* is reported present by the cache.
C7_WarmedCacheHoldsStore ==
  (callsMade = 1 /\ run[1].pc = "done" /\ run[1].path = "db")
    => \A u \in SeqToSet(dbRows) : ~isAvailable(u)

\* C8: when the warm-up has failed, the catch of doInitialize leaves the state
\* Ready with a fresh empty filter of the configured (or default) capacity and
\* error rate, the promise cleared, and no caller sees an exception.
C8_FallbackEmptyFilter ==
  [][ \A r \in RunIds :
        (run[r].pc = "rejected" /\ run'[r] # run[r])
          => /\ run'[r].pc = "done"
             /\ isInitialized'
             /\ initializationPromise' = 0
             /\ bloomFilter' = BloomCreate(getCapacity, getErrorRate)
             /\ \A p \in Procs : ~call'[p].threw ]_vars

\* an initialize() call has resolved after the warm-up failed with a filter of
\* another capacity already built
C8_Witness ==
  \E p \in Procs, r \in RunIds :
    /\ call[p].op = "initialize" /\ call[p].pc = "idle" /\ call[p].ready
    /\ run[r].path = "fallback"
    /\ isInitialized
    /\ bloomFilter = BloomCreate(getCapacity, getErrorRate)
    /\ WarmCapacity(Len(dbRows)) # getCapacity

\* C9: no adapter failure reaches a caller (no call ever throws), and the filter
\* after an accepted add is the filter before it plus the normalized name,
\* whatever the persist attempt did.
C9_PersistFailuresContained ==
  [][ /\ \A p \in Procs : ~call'[p].threw
      /\ \A p \in Procs :
           (call[p].pc = "idle" /\ call'[p].pc = "await_save" /\ call'[p].op = "add"
              /\ AddGuard)
             => bloomFilter' = BloomAdd(bloomFilter, normalizeUsername(call'[p].arg)) ]_vars

\* an accepted add and a shutdown have both completed after their persist failed
C9_Witness ==
  \E p, q \in Procs :
    /\ call[p].op = "add" /\ call[p].pc = "idle" /\ call[p].persist = "failed"
    /\ call[q].op = "shutdown" /\ call[q].pc = "idle" /\ call[q].persist = "failed"
    /\ BloomHas(bloomFilter, normalizeUsername(call[p].arg))

\* C10: while the live filter instance is Ready, every name added to it is
\* reported present under every spelling that normalizes to it.
C10_NoFalseNegatives ==
  AddGuard =>
    \A u \in addedLive : \A v \in QueryNames :
      normalizeUsername(v) = u => ~isAvailable(v)

\* two adds of different names have completed on the live filter
C10_Witness ==
  /\ AddGuard
  /\ addedLive = { <<"a">>, <<"b">> }
  /\ \A p \in Procs : call[p].op = "add" /\ call[p].pc = "idle"

\* the lifecycle state of the service: Ready once isInitialized is set,
\* Initializing while a doInitialize sequence runs for a service that is not
\* Ready, Uninitialized otherwise
LifecycleState ==
  IF isInitialized THEN "Ready"
  ELSE IF initializationPromise # 0 THEN "Initializing"
  ELSE "Uninitialized"

\* the step is the catch of doInitialize for the sequence r
FailureStep(r) == run[r].pc = "rejected" /\ run'[r].pc = "done"

\* the step is a reinitialize() call: Ready is cleared, the filter dropped and
\* initialize() entered in the same synchronous block
ReinitializeStep ==
  \E p \in Procs : call[p].pc = "idle" /\ call'[p].op = "reinitialize"
                     /\ call'[p].pc = "await_init"

\* C12 as stated: the state changes only along Uninitialized -> Initializing ->
\* Ready, Initializing -> Uninitialized when the initialization fails, and
\* Ready -> Uninitialized on reinitialize() (which enters initialize() at once).
C12_StatedLifecycle ==
  [][ /\ LifecycleState' # LifecycleState =>
           \/ LifecycleState = "Uninitialized" /\ LifecycleState' = "Initializing"
           \/ LifecycleState = "Initializing" /\ LifecycleState' = "Ready"
           \/ LifecycleState = "Initializing" /\ LifecycleState' = "Uninitialized"
           \/ LifecycleState = "Ready" /\ ReinitializeStep
      /\ \A r \in RunIds : FailureStep(r) => LifecycleState' = "Uninitialized" ]_vars

\* C12 as the code has it: the state changes only along Uninitialized ->
\* Initializing (initialize), Initializing -> Ready (the sequence ends, also
\* when it failed: the catch installs an empty filter and sets Ready) and
\* Ready -> Initializing (reinitialize clears Ready and enters initialize());
\* no step leads from Initializing to Uninitialized, and initialize() on a
\* Ready service starts a sequence without leaving Ready.
C12_CodeLifecycle ==
  [][ /\ LifecycleState' # LifecycleState =>
           \/ LifecycleState = "Uninitialized" /\ LifecycleState' = "Initializing"
           \/ LifecycleState = "Initializing" /\ LifecycleState' = "Ready"
           \/ LifecycleState = "Ready" /\ LifecycleState' = "Initializing"
                /\ ReinitializeStep
      /\ \A r \in RunIds : FailureStep(r) => LifecycleState' = "Ready"
      /\ (LifecycleState = "Ready" /\ runsStarted' = runsStarted + 1 /\ ~ReinitializeStep)
           => LifecycleState' = "Ready" ]_vars

\* a sequence has failed and left the service Ready, and a reinitialize() call
\* has since run a second sequence to Ready
C12_Witness ==
  /\ run[1].path = "fallback"
  /\ run[2].pc = "done"
  /\ isInitialized
  /\ \E p \in Procs : call[p].op = "reinitialize" /\ call[p].pc = "idle" /\ call[p].ready

\* C13: once a reinitialize() call has resolved and no sequence is running,
\* the state is Ready with a cache instance, also when the call was made while
\* another initialization was in flight.
C13_ReinitializeRebuilds ==
  \A p \in Procs :
    (call[p].op = "reinitialize" /\ call[p].pc = "idle" /\ InFlight = {})
      => (isInitialized /\ bloomFilter.some)

\* C24: add is idempotent: an add of a username whose normalized form the live
\* filter already received leaves every isAvailable answer (the service stays
\* Ready and the filter reports the same names present) and getStats().itemCount
\* (the number of bits set) as they were.
C24_AddIdempotent ==
  [][\A p \in Procs :
       ( /\ call[p].pc = "idle" /\ call'[p].pc = "await_save"
         /\ call'[p].op = "add"
         /\ AddGuard
         /\ normalizeUsername(call'[p].arg) \in addedLive )
         => /\ isInitialized' /\ bloomFilter'.some
            /\ \A q \in QueryNames :
                 BloomHas(bloomFilter', normalizeUsername(q))
                   = BloomHas(bloomFilter, normalizeUsername(q))
            /\ Cardinality(bloomFilter'.bits) = Cardinality(bloomFilter.bits)]_vars

\* "a" was added after "A": the second add found the filter holding its bits
C24_Witness ==
  \E p \in Procs :
    /\ call[p].op = "add" /\ call[p].arg = <<"a">>
    /\ AddGuard
    /\ addedLive = { <<"a">> }
    /\ callsMade = 3
    /\ \E q \in Procs \ {p} : call[q].op = "add" /\ call[q].arg = <<"A">>
    /\ getStats.itemCount = 2

\* C25: a sequence whose get brought a decodable snapshot installs the filter
\* decoded from it and, at its next step, marks the state Ready and ends: it
\* issues no store call (it is never at count or findMany) and no adapter write.
C25_SnapshotRestoreOnly ==
  [][\A r \in RunIds :
       /\ ( /\ run[r].pc = "redis_get" /\ run[r].got.kind = "snapshot"
            /\ run'[r] # run[r] )
            => /\ run'[r].pc = "load_ret" /\ run'[r].loaded
               /\ bloomFilter' = Deserialize(run[r].got)
               /\ bloomFilter'.some
               /\ run'[r].persist = "none"
               /\ redisBlob' = redisBlob
       /\ ( /\ run[r].pc = "load_ret" /\ run[r].loaded
            /\ run'[r] # run[r] )
            => /\ run'[r].pc = "done" /\ run'[r].path = "redis"
               /\ isInitialized'
               /\ run'[r].persist = "none"
               /\ redisBlob' = redisBlob]_vars

\* the first sequence ended Ready with the filter of the snapshot while the
\* store holds rows it never read
C25_Witness ==
  /\ runsStarted = 1 /\ run[1].pc = "done" /\ run[1].path = "redis"
  /\ isInitialized /\ bloomFilter.some
  /\ redisBlob.kind = "snapshot" /\ bloomFilter = Deserialize(redisBlob)
  /\ dbRows # <<>>
  /\ callsMade = 1

\* C26: when the get brings no blob, or one that is not JSON, not an object or
\* not decodable into a filter, loadFromRedis reports a miss without throwing
\* and leaves the live filter as it was, and the sequence goes on to the scan of
\* the store (prisma.user.count() is its first call).
C26_BadSnapshotIsMiss ==
  [][\A r \in RunIds :
       /\ ( /\ run[r].pc = "redis_get"
            /\ run[r].got.kind \in {"absent", "notjson", "notobject", "undecodable"}
            /\ run'[r] # run[r] )
            => /\ run'[r].pc = "load_ret" /\ ~run'[r].loaded
               /\ bloomFilter' = bloomFilter
               /\ isInitialized' = isInitialized
       /\ ( /\ run[r].pc = "load_ret" /\ ~run[r].loaded
            /\ run'[r] # run[r] )
            => /\ run'[r].pc = "count"
               /\ bloomFilter' = bloomFilter
               /\ isInitialized' = isInitialized]_vars

\* the adapter holds a blob that does not decode and the first sequence has
\* gone on to count the rows of the store
C26_Witness ==
  /\ redisMode = "up" /\ redisBlob.kind = "undecodable"
  /\ runsStarted = 1 /\ run[1].pc = "count"
  /\ ~isInitialized /\ ~bloomFilter.some
  /\ callsMade = 1

C28_PageFetches ==
  \A r \in RunIds :
    run[r].pc = "findMany" =>
      /\ run[r].skip % BatchSize = 0
      /\ run[r].skip \div BatchSize + 1 <= Len(dbRows) \div BatchSize + 1

\* C33: whenever a filter instance is live, the capacity and the errorRate that
\* getStats() reports are the parameters the instance was constructed with,
\* also for an instance sized from the row count by the warm-up.
C33_StatsOfLiveInstance ==
  bloomFilter.some =>
    /\ getStats.capacity = bloomFilter.cap
    /\ getStats.errorRate = bloomFilter.rate

\* C36: whenever isInitialized is true and no initialization is in flight, a
\* filter instance exists.
C36_ReadyHasFilter ==
  (isInitialized /\ initializationPromise = 0) => bloomFilter.some

\* C37: a username passed to add() while a doInitialize sequence was in flight
\* is in the cache once that sequence has ended Ready and add() has returned:
\* isAvailable answers false for it.
C37_AddDuringInitializationKept ==
  \A p \in Procs :
    (/\ call[p].op = "add" /\ call[p].pc = "idle"
     /\ call[p].run # 0 /\ call[p].run = runsStarted
     /\ isInitialized /\ initializationPromise = 0 /\ bloomFilter.some)
      => ~isAvailable(call[p].arg)

(***************************************************************************)
(* Properties of the restarts.                                             *)
(***************************************************************************)

\* C11: with the adapter connected and its writes succeeding, once the calls of
\* a process have completed, the fresh instance of the next process restores
\* the snapshot and reports present, under every spelling, every name the
\* instance before it held from its add and addBulk calls.
C11_RestoredCacheHoldsAdded ==
  (restarts >= 1 /\ redisMode = "up" /\ carried # {}
     /\ runsStarted = 1 /\ run[1].pc = "done" /\ AddGuard)
    => /\ run[1].path = "redis"
       /\ \A u \in carried : \A v \in QueryNames :
            normalizeUsername(v) = u => ~isAvailable(v)

\* two concurrent add() calls of different names completed before the restart,
\* and the fresh instance has restored the snapshot they left
C11_Witness ==
  /\ restarts = 1 /\ redisMode = "up"
  /\ carried = { <<"a">>, <<"b">> }
  /\ callsMade = MaxCalls
  /\ runsStarted = 1 /\ run[1].pc = "done" /\ run[1].path = "redis"
  /\ AddGuard
  /\ call[1].pc = "idle"

\* C14: while the adapter is unreachable, no initialization, at the first start
\* or after a restart, issues an adapter get or set, no call throws, every
\* sequence that ends has run the store scan (it ends by the scan when the store
\* answers, by the empty-filter fallback when the store fails), and every
\* initialize() call resolves with the state Ready.
C14_UnreachableAdapterScans ==
  redisMode = "down" =>
    /\ \A r \in RunIds :
         /\ run[r].pc # "redis_get"
         /\ run[r].persist \in {"none", "skipped"}
         /\ run[r].pc = "done" => run[r].path \in {"db", "fallback"}
         /\ (run[r].pc = "done" /\ dbMode = "up") => run[r].path = "db"
    /\ redisBlob \in InitialBlobs
    /\ \A p \in Procs :
         /\ ~call[p].threw
         /\ call[p].persist \in {"none", "skipped"}
         /\ (call[p].op = "initialize" /\ call[p].pc = "idle") => call[p].ready

\* with the adapter unreachable, the instance started after a restart has scanned
\* a store that holds rows and its initialize() call has resolved
C14_Witness ==
  /\ redisMode = "down" /\ restarts = 1
  /\ dbRows # <<>>
  /\ run[1].pc = "done" /\ run[1].path = "db"
  /\ isInitialized
  /\ call[1].op = "initialize" /\ call[1].pc = "idle" /\ call[1].ready
  /\ callsMade > 0

(***************************************************************************)
(* Properties of UserService.                                              *)
(***************************************************************************)

\* C1: the username generateUniqueUsername returns is not in the store, compared
\* case-insensitively, at the moment it is returned, on every return path (root,
\* random-suffix candidate, timestamp fallback).
C1_ReturnedAbsentFromStore ==
  \A p \in Procs : ucall[p].ret # <<>> => ~ucall[p].existed

\* the elements of a list are pairwise different
Distinct(list) ==
  \A i, j \in 1..Len(list) : i # j => list[i] # list[j]

\* C15: when every store check generateUniqueUsername issued has failed, the
\* operation does not hand an identifier to its caller: it is never at its return
\* with a name while all of its checks, the root's and the retries', threw.
C15_AllChecksFailedRaises ==
  \A p \in UserProcs :
    ~ ( /\ ucall[p].op = "oauth"
        /\ ucall[p].pc = "create"
        /\ ucall[p].checks > 0
        /\ ucall[p].fails = ucall[p].checks
        /\ ucall[p].ret # <<>> )

\* C17: when the normalized root is not empty, the cache lets it through and
\* its store check succeeds and reports it absent, generateUniqueUsername
\* returns the normalized root itself after that one store check, without
\* having built a suffixed candidate.
C17_AbsentRootReturned ==
  [][\A p \in UserProcs :
       LET c == ucall[p]
           d == ucall'[p]
       IN  ( /\ c.op = "oauth" /\ c.pc = "root_check" /\ d # c
             /\ c.username # <<>> /\ c.username \in NormalizedRoots
             /\ c.cand \in d.absent )
             => /\ d.pc = "create" /\ d.path = "root"
                /\ d.ret = c.username
                /\ d.checks = 1 /\ d.fails = 0
                /\ d.i = 0 /\ d.cand = c.username
                /\ ~d.threw]_vars

\* a Ready cache let the root "a" through, the store reported it absent and the
\* root was returned
C17_Witness ==
  \E p \in UserProcs :
    /\ CacheReady
    /\ ucall[p].op = "oauth" /\ ucall[p].pc = "create"
    /\ ucall[p].path = "root" /\ ucall[p].ret = <<"a">>
    /\ ucall[p].absent = { <<"a">> }
    /\ ucall[p].checks = 1

\* C18: when the cache reports the normalized root present while the store
\* does not hold it, generateUniqueUsername returns the root itself (reported is
\* history: the cache answered "present" for the root at line 336).
C18_FalsePositiveRootReturned ==
  \A p \in UserProcs :
    ( /\ ucall[p].op = "oauth" /\ ucall[p].pc = "create"
      /\ ucall[p].reported
      /\ ucall[p].username \in NormalizedRoots
      /\ ~StoreHolds(ucall[p].username) )
      => (ucall[p].ret = ucall[p].username /\ ucall[p].path = "root")

\* C19: when the root is taken and the first candidate of the retry loop is
\* absent from the cache and from the store, generateUniqueUsername returns
\* root + "_" + s with s exactly five characters of [a-z0-9], a name the store
\* does not hold.
C19_FirstCandidateFiveChars ==
  \A p \in UserProcs :
    ( /\ ucall[p].op = "oauth" /\ ucall[p].pc = "create"
      /\ ucall[p].path = "candidate" /\ ucall[p].i = 0 )
      => /\ \E s \in UniqueSuffixes :
              /\ Len(s) = 5
              /\ \A n \in 1..Len(s) : s[n] \in SeqToSet(Base36Digits)
              /\ ucall[p].ret = ucall[p].username \o <<"_">> \o s
         /\ ~ucall[p].existed

\* C20: called with maxRetries = 0 for a root that is taken (the cache reports
\* it present, or its store check says it exists), generateUniqueUsername
\* returns root + "_" + the time in base 36 without building a suffixed
\* candidate, after no store check when the cache reported the root and after
\* the root's one check otherwise.
C20_NoRetriesFallsBack ==
  \A p \in UserProcs :
    LET c == ucall[p] IN
    (c.op = "unique" /\ c.maxRetries = 0) =>
      /\ c.pc \in {"idle", "root_check", "root_add", "create"}
      /\ c.cand \in {<<>>, c.username}
      /\ c.checks <= 1
      /\ c.reported => c.checks = 0
      /\ (c.pc = "create" /\ c.path # "root") =>
           /\ c.path = "fallback"
           /\ \E now \in NowValues : c.ret = c.username \o <<"_">> \o ToString36(now)
           /\ c.i = 0

\* with maxRetries = 0 the store reported the root "a" existing and the fallback
\* was returned after that one check
C20_Witness ==
  \E p \in UserProcs :
    /\ ucall[p].op = "unique" /\ ucall[p].maxRetries = 0
    /\ ucall[p].pc = "create" /\ ucall[p].path = "fallback"
    /\ ucall[p].username = <<"a">> /\ StoreHolds(<<"a">>)
    /\ ucall[p].checks = 1 /\ ucall[p].fails = 0
    /\ ~ucall[p].reported

\* generateUsernameSuggestions has returned to p from a call that met an empty
\* store, a cache reporting nothing present and no store error
SuggestedFromEmpty(p) ==
  /\ ucall[p].op = "suggest" /\ ucall[p].pc = "idle" /\ ucall[p].listed
  /\ dbRows = <<>>
  /\ bloomFilter.bits = {}
  /\ ucall[p].fails = 0
  /\ Len(ucall[p].username) >= 2

C22_AcceptedNameInCache ==
  \A p \in UserProcs :
    ( /\ ucall[p].op = "oauth" /\ ucall[p].pc = "create"
      /\ ucall[p].path \in {"root", "candidate"}
      /\ CacheReady )
      => ~isAvailable(ucall[p].ret)

\* C23: every name generateUniqueUsername returns, by the root, a suffixed
\* candidate or the time-based fallback, is not empty, holds only characters of
\* [a-z0-9_] and is at most 32 characters long.
C23_ReturnedNameWellFormed ==
  \A p \in UserProcs :
    (ucall[p].op = "unique" /\ ucall[p].pc = "create") =>
      /\ ucall[p].ret # <<>>
      /\ \A n \in 1..Len(ucall[p].ret) : IsValidChar(ucall[p].ret[n])
      /\ Len(ucall[p].ret) <= 32

\* C29: generateUniqueUsername asks the cache before the store, for the root
\* and for every candidate: a step that issues a store check issues it for a
\* name the cache reports absent at that step, and when the cache reported the
\* root present no store check of the root is made (the operation is in the
\* retry loop or has returned).
C29_CacheBeforeStore ==
  [][\A p \in UserProcs :
       LET c == ucall[p]
           d == ucall'[p]
       IN  (d.op = "oauth" /\ d # c) =>
             /\ d.pc \in {"root_check", "cand_check"} => isAvailable(d.cand)
             /\ d.reported =>
                  /\ d.pc \notin {"root_check", "root_add"}
                  /\ d.username \notin d.absent \cup d.errored
                  /\ d.path # "root"]_vars

\* a Ready cache reported the root present and a later candidate absent: the
\* first store check of the call is the candidate's
C29_Witness ==
  \E p \in UserProcs :
    /\ CacheReady
    /\ ucall[p].op = "oauth" /\ ucall[p].reported
    /\ ucall[p].pc = "cand_check"
    /\ ucall[p].checks = 0
    /\ ~isAvailable(ucall[p].username)

\* the place of generateUniqueUsername in its course, as one number: the root's
\* check and add, then check and add of each loop iteration, then the return
UniqueRank(c) ==
  CASE c.pc = "root_check" -> 0
    [] c.pc = "root_add" -> 1
    [] c.pc = "cand_check" -> 2 + 2 * c.i
    [] c.pc = "cand_add" -> 3 + 2 * c.i
    [] OTHER -> 2 + 2 * c.maxRetries

\* C30: generateUniqueUsername terminates with a result whatever the store and
\* the cache answer: every step of it moves forward through the root and the at
\* most maxRetries loop iterations or returns, no step throws, the call makes at
\* most maxRetries + 1 store checks, and what it returns is a name.
C30_UniqueTerminates ==
  [][\A p \in UserProcs :
       LET c == ucall[p]
           d == ucall'[p]
       IN  ( /\ c.op = "oauth"
             /\ c.pc \in {"root_check", "root_add", "cand_check", "cand_add"}
             /\ d # c )
             => /\ d.pc \in {"root_add", "cand_check", "cand_add", "create"}
                /\ UniqueRank(d) > UniqueRank(c)
                /\ d.i <= d.maxRetries
                /\ d.pc \in {"cand_check", "cand_add"} => d.i < d.maxRetries
                /\ d.checks <= d.maxRetries + 1
                /\ ~d.threw
                /\ d.pc = "create" => d.ret # <<>>]_vars

\* the root and all ten candidates were checked and found taken, and the call
\* returned the fallback after its eleven checks
C30_Witness ==
  \E p \in UserProcs :
    /\ ucall[p].op = "oauth" /\ ucall[p].pc = "create"
    /\ ucall[p].path = "fallback"
    /\ ucall[p].i = ucall[p].maxRetries
    /\ ucall[p].checks = ucall[p].maxRetries + 1
    /\ ucall[p].ret # <<>>

\* C2: the list generateUsernameSuggestions builds and the list it returns never
\* hold the same identifier twice, and every identifier in them was reported
\* absent by a successful store check made during that call.
C2_SuggestionsDistinctAndChecked ==
  \A p \in Procs :
    /\ Distinct(ucall[p].suggestions)
    /\ Distinct(ucall[p].result)
    /\ SeqToSet(ucall[p].suggestions) \subseteq ucall[p].absent
    /\ ucall[p].listed => SeqToSet(ucall[p].result) \subseteq SeqToSet(ucall[p].suggestions)

\* validateUsername has returned a full, reordered list after the store reported
\* some candidates taken or failed
C2_Witness ==
  \E p \in Procs :
    /\ ucall[p].op = "validate" /\ ucall[p].pc = "idle" /\ ucall[p].listed
    /\ Len(ucall[p].result) = maxSuggestions
    /\ ucall[p].result # ucall[p].suggestions
    /\ ucall[p].checks > maxSuggestions + 1
    /\ ucall[p].k = 11

\* the place of generateUsernameSuggestions in its strategies, as one number:
\* strategy, iteration of the strategy, candidate of the iteration
SuggestionRank(c) == c.k * 10000 + c.attempts * 10 + c.sub

\* C16: generateUsernameSuggestions terminates and does not raise whatever the
\* store checks do: every step of it moves to a later candidate site of the
\* bounded strategies or returns, no step throws, and the list it returns holds
\* exactly the candidates whose check succeeded and reported absence, each once,
\* at most maxSuggestions of them (none when no check succeeded).
C16_SuggestionsSurviveStoreErrors ==
  [][\A p \in UserProcs :
       LET c == ucall[p]
           d == ucall'[p]
       IN  /\ (c.pc \in {"s_wait", "s_check"} /\ d # c) =>
                /\ SuggestionRank(d) > SuggestionRank(c)
                /\ d.k <= 11 /\ d.attempts <= 100 /\ d.sub <= 3
                /\ d.pc \in {"s_wait", "s_check", "idle"}
           /\ (d.op = "validate" /\ d.pc = "idle" /\ d.avail # "true") =>
                /\ ~d.threw
                /\ d.listed
                /\ SeqToSet(d.result) = d.absent
                /\ Len(d.result) = Cardinality(d.absent)
                /\ Len(d.result) <= maxSuggestions]_vars

\* validateUsername has returned an empty list after every check of its
\* candidates failed
C16_Witness ==
  \E p \in UserProcs :
    /\ dbMode = "down"
    /\ ucall[p].op = "validate" /\ ucall[p].pc = "idle" /\ ucall[p].listed
    /\ ucall[p].result = <<>>
    /\ ucall[p].checks > maxSuggestions
    /\ ucall[p].fails = ucall[p].checks

\* C31: within one generateUsernameSuggestions call a candidate is checked at
\* most once: a step that sends a candidate to the store sends one that was not
\* in the attempted set and is in it afterwards, the set only grows, and the
\* call has made no more store checks than the set has candidates.
C31_CandidateCheckedOnce ==
  [][\A p \in UserProcs :
       LET c == ucall[p]
           d == ucall'[p]
           within == c.pc \in {"s_wait", "s_check"}
       IN  (d.op = "suggest" /\ d # c) =>
             /\ d.pc = "s_check" =>
                  /\ d.cand \in d.attemptedUsernames
                  /\ within => d.cand \notin c.attemptedUsernames
                  /\ ~within => d.attemptedUsernames = {d.cand}
             /\ (within /\ d.pc # "idle") =>
                  c.attemptedUsernames \subseteq d.attemptedUsernames
             /\ d.pc # "idle" => d.checks <= Cardinality(d.attemptedUsernames)]_vars

\* strategy 1 drew the same suffix again: its third candidate was dropped with
\* two candidates attempted and two store checks made
C31_Witness ==
  \E p \in UserProcs :
    /\ ucall[p].op = "suggest" /\ ucall[p].pc = "s_wait"
    /\ ucall[p].k = 1 /\ ucall[p].attempts = 3
    /\ Cardinality(ucall[p].attemptedUsernames) = 2
    /\ ucall[p].checks = 2

\* C32: a generateUsernameSuggestions call never holds more than maxSuggestions
\* suggestions, and the step that brings the list to maxSuggestions is the one
\* that returns: no candidate is examined after it, and the returned list has
\* every entry of the accumulated one (slice(0, maxSuggestions) removes none).
C32_SuggestionsCapped ==
  [][\A p \in UserProcs :
       LET c == ucall[p]
           d == ucall'[p]
       IN  (d.op = "suggest" /\ d # c) =>
             /\ Len(d.suggestions) <= maxSuggestions
             /\ Len(d.suggestions) = maxSuggestions => d.pc = "idle"
             /\ d.pc = "idle" =>
                  /\ Len(d.result) = Len(d.suggestions)
                  /\ SeqToSet(d.result) = SeqToSet(d.suggestions)]_vars

\* a call for "ab" returned as soon as its fifth suggestion was found, in
\* strategy 2
C32_Witness ==
  \E p \in UserProcs :
    /\ ucall[p].op = "suggest" /\ ucall[p].pc = "idle" /\ ucall[p].listed
    /\ ucall[p].username = <<"a", "b">>
    /\ Len(ucall[p].suggestions) = maxSuggestions
    /\ Len(ucall[p].result) = maxSuggestions
    /\ \E n \in 1..maxSuggestions : ucall[p].suggestions[n] = <<"a", "b", "2">>

C35_AddedNamesInStore ==
  [][\A u \in addedLive' \ addedLive :
       \E i \in 1..Len(dbRows') : normalizeUsername(dbRows'[i]) = u]_vars

\* C38: in generateUniqueUsername and validateUsername with a Ready cache, when
\* the store check of a name the cache reported absent answers that the name
\* exists, the name is in the cache before the operation goes on, and no later
\* store check is issued for a name added this way: the cache answers present.
C38_ExistingNameCached ==
  [][\A p \in UserProcs :
       LET c == ucall[p]
           d == ucall'[p]
           checks == {"root_check", "cand_check", "v_check"}
           adds == {"root_add", "cand_add", "v_add"}
       IN  (CacheReady /\ d # c /\ d.op \in {"oauth", "validate"}) =>
             /\ (c.pc \in checks /\ (c.cand \in d.errored \/ findFirst(c.cand))) =>
                  /\ d.pc \in adds
                  /\ BloomHas(bloomFilter', normalizeUsername(c.cand))
             /\ d.pc \in checks => normalizeUsername(d.cand) \notin addedLive
             /\ \A u \in addedLive : BloomHas(bloomFilter', u)]_vars

\* the first request found "a" in the store and added it; the second one is
\* answered by the cache and goes to its candidates without a check of "a"
C38_Witness ==
  \E p \in UserProcs :
    /\ CacheReady /\ callsMade = 2
    /\ ucall[p].op = "oauth" /\ ucall[p].reported /\ ucall[p].checks = 0
    /\ ucall[p].username = <<"a">> /\ ucall[p].pc = "cand_check"
    /\ <<"a">> \in addedLive
    /\ findFirst(<<"a">>)

\* C39: when findOrCreateOAuthUser finds the provider account linked to a user,
\* it goes on to return that user if the user is active and throws the
\* 'deactivated' exception only if the user is not active; no row is inserted.
C39_LinkedAccountReturnsActiveUser ==
  [][\A p \in Procs :
       LET c == ucall[p]
           d == ucall'[p]
       IN  (c.pc = "oa_account" /\ d.account # 0) =>
             /\ isActive(d.account) => (~d.threw /\ d.pc = "oa_update")
             /\ d.threw => ~isActive(d.account)
             /\ dbRows' = dbRows]_vars

AskedNames ==
  QueryNames \cup SeqToSet(dbRows)
    \cup { ucall[p].cand : p \in Procs } \cup { ucall[p].username : p \in Procs }

C6_ValidateAgreesWithStore ==
  \A p \in Procs :
    (ucall[p].op = "validate" /\ ucall[p].pc = "idle") =>
      /\ ucall[p].avail \in {"true", "false"}
      /\ ucall[p].avail = "true" => ucall[p].username \in ucall[p].absent
      /\ ucall[p].avail = "true" => ~ucall[p].listed
      /\ ucall[p].existed => (ucall[p].avail = "false" /\ ucall[p].listed)

\* validateUsername has answered, after a successful store check, for a name
\* the store holds
C6_Witness ==
  \E p \in Procs :
    /\ ucall[p].op = "validate" /\ ucall[p].pc = "idle"
    /\ ucall[p].existed /\ ucall[p].avail = "false" /\ ucall[p].listed
    /\ ucall[p].checks > 0
    /\ Len(ucall[p].result) > 0
    /\ ucall[p].username \notin ucall[p].errored

====
